---- MODULE Spec2Model ----
(***************************************************************************)
(* A model of the Metropolis-Light-Transport renderer: the thread pool,    *)
(* the render process with its render thread and frame buffers, the        *)
(* application's main loop, the path tracer's tiling and the MLT workers.  *)
(*                                                                         *)
(* Every block that runs under ThreadPool::_mutex is one action (the       *)
(* mutex makes it atomic); a condition variable is the set of threads      *)
(* blocked in its wait(); a notification sent after the mutex is released  *)
(* is a step of its own.                                                   *)
(***************************************************************************)
EXTENDS Integers, Sequences, FiniteSets, TLC

(***************************************************************************)
(* Bounds of the model.                                                    *)
(***************************************************************************)
\* largest -j/--jobs value explored (pool size and number of MLT processes)
MaxJobs == 2
\* number of RenderProcess::reset() calls the main loop may make
MaxResets == 1
\* the render loop starts no new pass once this many samples per pixel are
\* accumulated (unless the renderer is stopping, when a pass is cut short)
MaxSpp == 2
\* image size used with the path tracer (two tiles wide)
PTWidth == 33
PTHeight == 1
\* image size used with MLT
MLTWidth == 2
MLTHeight == 1
\* largest image side for which the tiling of a pass is examined
TileMaxDim == 40
\* number of jobs a client hands to a pool before destroying it
MaxClientJobs == 2

(***************************************************************************)
(* Program constants.                                                      *)
(***************************************************************************)
BlockWidth == 32
NumSamplesToTake == 16384
MaxNumSamplesPerStep == 128
MaxLength == 10

Min(a, b) == IF a < b THEN a ELSE b
Max(a, b) == IF a < b THEN b ELSE a
Abs(a) == IF a < 0 THEN 0 - a ELSE a
Sign(a) == IF a < 0 THEN 0 - 1 ELSE IF a > 0 THEN 1 ELSE 0

(***************************************************************************)
(* float values.  A value is a pair <<n, d>> with d >= 0 standing for n/d  *)
(* in lowest terms; <<1, 0>> is +infinity, <<-1, 0>> is -infinity and      *)
(* <<0, 0>> is NaN.  The values are exact: the rounding of single          *)
(* precision is not modelled, and the two zeros are one value.             *)
(***************************************************************************)
RECURSIVE GCD(_, _)
GCD(a, b) == IF b = 0 THEN a ELSE GCD(b, a % b)

Rat(n, d) ==
    IF d = 0 THEN <<Sign(n), 0>>
    ELSE LET g == GCD(Abs(n), Abs(d))
         IN  <<(Sign(d) * n) \div g, Abs(d) \div g>>

Zero == <<0, 1>>
One == <<1, 1>>
NaN == <<0, 0>>
PlusInf == <<1, 0>>
IsNaN(x) == x = NaN
IsFinite(x) == x[2] # 0

\* x * y
Mul(x, y) ==
    IF x[2] = 0 \/ y[2] = 0 THEN <<Sign(x[1]) * Sign(y[1]), 0>>
    ELSE IF x[1] = 0 \/ y[1] = 0 THEN Zero
    ELSE LET g1 == GCD(Abs(x[1]), y[2])
             g2 == GCD(Abs(y[1]), x[2])
         IN  <<(x[1] \div g1) * (y[1] \div g2), (x[2] \div g2) * (y[2] \div g1)>>

\* 1.0f / x
Inv(x) ==
    IF x[1] > 0 THEN <<x[2], x[1]>>
    ELSE IF x[1] < 0 THEN <<0 - x[2], 0 - x[1]>>
    ELSE IF x[2] = 0 THEN NaN
    ELSE PlusInf

\* x / y
Div(x, y) == Mul(x, Inv(y))

\* x - y, for finite values
Sub(x, y) == Rat(x[1] * y[2] - y[1] * x[2], x[2] * y[2])

\* x < y, for finite values
Less(x, y) == x[1] * y[2] < y[1] * x[2]

\* std::min(1.0f, x), that is (x < 1.0f) ? x : 1.0f
MinOne(x) ==
    IF IsNaN(x) THEN One
    ELSE IF x[2] = 0 THEN (IF x[1] < 0 THEN x ELSE One)
    ELSE IF x[1] < x[2] THEN x ELSE One

RECURSIVE Pow2(_)
Pow2(k) == IF k = 0 THEN 1 ELSE 2 * Pow2(k - 1)

\* std::powf(_base, k) for the base 0.5f both distributions are built with
PowBase(k) == <<1, Pow2(k)>>

\* math.h: Epsilon = 5e-5f
Epsilon == <<1, 20000>>

\* ClippedGeometricDistribution after setParameters(n): pdf(i)
ClippedPdf(n, i) ==
    LET normalization == Sub(One, PowBase(n + 1))
        invNormalization == Inv(normalization)
    IN  Mul(Mul(Sub(One, PowBase(1)), PowBase(i)), invNormalization)

\* TwoSidedClippedGeometricDistribution after
\* setParameters(left, center, right): pdf(i)
TwoSidedPdf(left, center, right, i) ==
    LET offset == PowBase(center - left + 1)
        normalization == Sub(Sub(Rat(2, 1), offset), PowBase(right - center + 1))
        invNormalization == Inv(normalization)
        result == Mul(Mul(Sub(One, PowBase(1)), PowBase(Abs(i - center))),
                      invNormalization)
    IN  IF i = 0 THEN Mul(result, Rat(2, 1)) ELSE result

VARIABLES
    cfg,                \* command line: usePT, numJobs; image size; scene
    isStopping,         \* IRenderer::_isStopping
    numSamplesPerPixel, \* PathTracer::_numSamplesPerPixel / MLT::_averageSamplesPerPixel
    acc,                \* PathTracer::_accumulationBuffer: samples added per pixel
    procs,              \* MLT::_processes
    nullDeref,          \* a step dereferenced an empty _currentState
    stopping,           \* ThreadPool::_stopping
    numActiveTasks,     \* ThreadPool::_numActiveTasks, a uint32_t held as its bit
                        \* pattern read as a signed number (0xFFFFFFFF is -1)
    workQueue,          \* ThreadPool::_workQueue
    availWait,          \* workers blocked in _availableWorkCV.wait
    waitWait,           \* threads blocked in _waitCV.wait
    wpc,                \* position of each pool worker
    exec,               \* the job each thread is executing
    unfinished,         \* jobs handed to assignWork whose closure has not returned
    rpc,                \* position of each render thread
    rloc,               \* renderLoop / accumulate locals of each render thread
                        \* (back to their initial values once the thread ends)
    thread,             \* RenderProcess::_thread (0: not joinable)
    front,              \* RenderProcess::_frontBuffer (index into _frameBuffers)
    back,               \* RenderProcess::_backBuffer
    frames,             \* RenderProcess::_frameBuffers: what each holds
    mpc,                \* position of the main thread
    mloc,               \* Application::run locals
    resets,             \* resets made so far
    camera,             \* Scene::camera (every move or rotation changes it)
    chain,              \* one MLTProcess in detail: _currentState
    info,               \* the MutationInfo of its last step
    bvh,                \* one BVH: its members and the pending calls of split
    trav,               \* one call of BVH::intersect: its arguments and locals
    path,               \* one Path under construction
    args,               \* main reading the --mutations option
    mp,                 \* one MLT with one MLTProcess: its members and the
                        \* position and locals of MLTProcess::accumulate
    mut,                \* one call of MLTProcess::bidirectionalMutation: its
                        \* locals and the proposal path it builds
    fn                  \* one call of a function that only computes: its
                        \* arguments and what it returns

vars == <<cfg, isStopping, numSamplesPerPixel, acc, procs, nullDeref, stopping,
          numActiveTasks, workQueue, availWait, waitWait, wpc, exec, unfinished,
          rpc, rloc, thread, front, back, frames, mpc, mloc, resets, camera,
          chain, info, bvh, trav, path, args, mp, mut, fn>>

poolVars == <<stopping, numActiveTasks, workQueue, availWait, waitWait, wpc>>
rendererVars == <<isStopping, numSamplesPerPixel, acc, procs, nullDeref>>
processVars == <<thread, front, back, frames>>
mainVars == <<mpc, mloc, resets, camera>>
chainVars == <<chain, info>>
bvhVars == <<bvh, trav>>
callVars == <<mut, fn>>
\* what the threads of the render process leave alone
fixedVars == <<cfg, chainVars, bvhVars, path, args, mp, callVars>>

MaxThreads == MaxResets + 1
RenderThreads == 1..MaxThreads
\* a render thread as an executor of jobs
RId(t) == 0 - t
\* every thread that can run a work unit
Executors == (1..MaxJobs) \cup {RId(t) : t \in RenderThreads}

\* RenderProcess::RenderProcess: the pool exists only when numJobs > 1
HasPool == cfg.numJobs > 1
Workers == IF HasPool THEN 1..cfg.numJobs ELSE {}
\* MLT::MLT: numProcesses < 1 becomes 1
NumProcesses == IF cfg.numJobs < 1 THEN 1 ELSE cfg.numJobs
Pixels == (0..(cfg.width - 1)) \X (0..(cfg.height - 1))

NoJob == [kind |-> "none", a |-> 0, b |-> 0, n |-> 0, bw |-> 0]
Idle == [job |-> NoJob, i |-> 0, j |-> 0, pc |-> "none"]
\* the closure PathTracer::accumulate submits for the tile at (x, y)
TileJob(x, y, bw, n) == [kind |-> "tile", a |-> x, b |-> y, n |-> n, bw |-> bw]
\* a closure that captures the loop variable by reference works on the
\* process the loop ends with
ProcJobOfLast(p, n) == [kind |-> "proc", a |-> NumProcesses, b |-> 0, n |-> n, bw |-> 0]
\* the closure MLT::accumulate submits for process p
ProcJob(p, n) == [kind |-> "proc", a |-> p, b |-> 0, n |-> n, bw |-> 0]
\* the first statement of a closure
Start(job) ==
    [job |-> job,
     i |-> IF job.kind = "tile" THEN job.a ELSE 0,
     j |-> job.b,
     pc |-> IF job.kind = "proc" THEN "init" ELSE "run"]

(***************************************************************************)
(* The state after RenderProcess::RenderProcess has run: the pool's        *)
(* workers are at the top of their loop, the first render thread is at the *)
(* top of renderLoop, both frame buffers are blank.  An image has at least *)
(* one pixel.                                                              *)
(***************************************************************************)
Configs ==
    {[usePT |-> TRUE, numJobs |-> n, lit |-> TRUE,
      width |-> PTWidth, height |-> PTHeight] : n \in 1..MaxJobs}
    \cup
    {[usePT |-> FALSE, numJobs |-> n, lit |-> l,
      width |-> MLTWidth, height |-> MLTHeight] : n \in 1..MaxJobs, l \in BOOLEAN}

\* MLTProcess::MLTProcess and the member initialisers of MLTProcess
NewProcess == [state |-> FALSE, hist |-> 0, muts |-> 0]

RenderLocals == [step |-> 1, si |-> 0, sj |-> 0, sp |-> 1]

\* an empty std::optional<State>
NoState == [has |-> FALSE, len |-> 0, lum |-> Zero, rr |-> Zero]
\* no MutationInfo yet
NoInfo == [type |-> "none", some |-> FALSE, acceptance |-> Zero,
           len |-> 0, lum |-> Zero, rr |-> Zero]

InitRenderer ==
    /\ isStopping = FALSE
    /\ numSamplesPerPixel = 0
    /\ acc = [p \in Pixels |-> 0]
    /\ procs = IF cfg.usePT THEN <<>> ELSE [p \in 1..NumProcesses |-> NewProcess]
    /\ nullDeref = FALSE

InitPool ==
    /\ stopping = FALSE
    /\ numActiveTasks = 0
    /\ workQueue = <<>>
    /\ availWait = {}
    /\ waitWait = {}
    /\ wpc = [w \in Workers |-> "idle"]
    /\ unfinished = {}

\* the program started with one of the given command lines; first is the
\* render thread the constructor starts (0: none) and at is where the main
\* thread goes on
InitProgram(configs, first, at) ==
    /\ cfg \in configs
    /\ InitRenderer
    /\ InitPool
    /\ exec = [e \in Workers \cup {RId(t) : t \in RenderThreads} |-> Idle]
    /\ rpc = [t \in RenderThreads |-> IF t = first THEN "loop" ELSE "none"]
    /\ rloc = [t \in RenderThreads |-> RenderLocals]
    /\ thread = first
    /\ front = 0
    /\ back = 1
    /\ frames = [b \in {0, 1} |-> 0]
    /\ mpc = at
    /\ mloc = [dragged |-> FALSE, submitted |-> 0]
    /\ resets = 0
    /\ camera = 0
    /\ chain = NoState
    /\ info = NoInfo

\* no BVH is built yet
NoBVH ==
    [pc |-> "none", mesh |-> <<>>, triangles |-> <<>>, nodes |-> <<>>,
     rootBounds |-> <<>>, calls |-> <<>>]
\* no BVH::intersect call is under way
NoTraversal ==
    [pc |-> "idle", ray |-> <<>>, minDistance |-> Zero, maxDistance |-> Zero,
     stack |-> <<>>, closestHit |-> <<>>]

\* no Path is under construction
NoPath ==
    [pc |-> "idle", kind |-> "none", scene |-> [geometry |-> FALSE, lights |-> 0],
     length |-> 0, bounces |-> <<>>]

\* MLT::EnabledMutations with its member initialisers
NoMutations ==
    [newPathMutation |-> FALSE, lensPerturbation |-> FALSE,
     multiChainPerturbation |-> FALSE, bidirectionalMutation |-> FALSE]

\* enabledMutations as main declares it
AllMutations ==
    [newPathMutation |-> TRUE, lensPerturbation |-> TRUE,
     multiChainPerturbation |-> TRUE, bidirectionalMutation |-> TRUE]

\* main before parser.parse_args
NoArgs ==
    [pc |-> "start", string |-> <<>>, ss |-> <<>>, result |-> NoMutations,
     enabledMutations |-> AllMutations, exitCode |-> 0]

\* no MLT is constructed yet
NoMLT ==
    [pc |-> "none", config |-> NoMutations, lit |-> FALSE, stop |-> FALSE,
     numSamples |-> 0, numMutations |-> 0, i |-> 0, pixel |-> 0,
     newPixel |-> 0, branch |-> "none", hist |-> <<>>,
     numNewPathMutations |-> 0, accumulatedLuminance |-> Zero,
     averageSamplesPerPixel |-> Zero, samples |-> 0, passes |-> 0,
     updated |-> FALSE, scaleFactor |-> Zero, frame |-> <<>>]

\* no bidirectionalMutation is under way
NoMutation == [pc |-> "none"]
\* no function is called
NoCall == [f |-> "none"]

InitWith(configs, first, at) ==
    /\ InitProgram(configs, first, at)
    /\ bvh = NoBVH
    /\ trav = NoTraversal
    /\ path = NoPath
    /\ args = NoArgs
    /\ mp = NoMLT
    /\ mut = NoMutation
    /\ fn = NoCall

Init == InitWith(Configs, 1, "loop")

(***************************************************************************)
(* ThreadPool                                                              *)
(***************************************************************************)
\* _availableWorkCV.notify_one(): one blocked worker, if any, is released
\* and goes back to evaluating its wait predicate
NotifyOneAvailable ==
    \/ /\ availWait = {}
       /\ UNCHANGED <<availWait, wpc>>
    \/ \E w \in availWait :
          /\ availWait' = availWait \ {w}
          /\ wpc' = [wpc EXCEPT ![w] = "idle"]

\* _availableWorkCV.notify_all()
NotifyAllAvailable ==
    /\ availWait' = {}
    /\ wpc' = [w \in DOMAIN wpc |-> IF w \in availWait THEN "idle" ELSE wpc[w]]

\* ThreadPool::assignWork, the block under the mutex
AssignWork(job) ==
    /\ workQueue' = Append(workQueue, job)
    /\ numActiveTasks' = numActiveTasks + 1
    /\ unfinished' = unfinished \cup {job}

\* a wait that returns as soon as the queue is empty
QueueIsEmpty == workQueue = <<>>
\* the predicate of ThreadPool::wait
WaitPredicate == numActiveTasks = 0 /\ workQueue = <<>>

\* a worker that leaves as soon as the pool is stopping
BreaksWhenStopping == stopping
\* the worker leaves its loop (the break of the worker lambda)
WorkerBreaks == stopping /\ workQueue = <<>>

\* worker lambda, first block: wait for work under the mutex, then leave the
\* loop or take the job at the front of the queue
WorkerTake(w) ==
    /\ w \in Workers
    /\ wpc[w] = "idle"
    /\ IF ~(stopping \/ workQueue # <<>>)
       THEN /\ wpc' = [wpc EXCEPT ![w] = "waiting"]
            /\ availWait' = availWait \cup {w}
            /\ UNCHANGED <<workQueue, exec>>
       ELSE IF WorkerBreaks
       THEN /\ wpc' = [wpc EXCEPT ![w] = "exited"]
            /\ UNCHANGED <<workQueue, exec, availWait>>
       ELSE /\ wpc' = [wpc EXCEPT ![w] = "running"]
            /\ exec' = [exec EXCEPT ![w] = Start(Head(workQueue))]
            /\ workQueue' = Tail(workQueue)
            /\ UNCHANGED availWait
    /\ UNCHANGED <<fixedVars, rendererVars, stopping, numActiveTasks, waitWait,
                   unfinished, rpc, rloc, processVars, mainVars>>

\* a condition variable may release a waiter without a notification
WorkerSpuriousWakeup(w) ==
    /\ w \in Workers
    /\ wpc[w] = "waiting"
    /\ w \in availWait
    /\ availWait' = availWait \ {w}
    /\ wpc' = [wpc EXCEPT ![w] = "idle"]
    /\ UNCHANGED <<fixedVars, rendererVars, stopping, numActiveTasks, workQueue,
                   waitWait, exec, unfinished, rpc, rloc, processVars, mainVars>>

\* _waitCV.notify_all(): every thread blocked in ThreadPool::wait goes back
\* to evaluating the wait predicate
NotifyAllWait ==
    /\ rpc' = [t \in RenderThreads |->
                  IF RId(t) \in waitWait THEN "wait" ELSE rpc[t]]
    /\ waitWait' = {}

\* a worker that leaves _numActiveTasks as it is
NoDecrement(n) == n
\* the new value of _numActiveTasks after a work unit
Decrement(n) == n - 1

\* worker lambda, third block: the work unit has returned
WorkerNotifyCompleted(w) ==
    /\ w \in Workers
    /\ wpc[w] = "running"
    /\ exec[w].pc = "ret"
    /\ numActiveTasks' = Decrement(numActiveTasks)
    /\ IF numActiveTasks' = 0 /\ workQueue = <<>>
       THEN NotifyAllWait
       ELSE UNCHANGED <<rpc, waitWait>>
    /\ wpc' = [wpc EXCEPT ![w] = "idle"]
    /\ exec' = [exec EXCEPT ![w] = Idle]
    /\ UNCHANGED <<fixedVars, rendererVars, stopping, workQueue, availWait,
                   unfinished, rloc, processVars, mainVars>>

(***************************************************************************)
(* Work units                                                              *)
(***************************************************************************)
\* a closure returns
Return(e) ==
    /\ exec' = [exec EXCEPT ![e].pc = "ret"]
    /\ unfinished' = unfinished \ {exec[e].job}

\* a block that is not clipped at the image border
BlockEndUnclipped(start, blockWidth, size) == start + blockWidth
\* PathTracer::accumulateBlock: the bound of its loops along one axis
BlockEnd(start, blockWidth, size) == Min(size, start + blockWidth)

\* the pixels the loops of accumulateBlock visit
BlockPixels(job) ==
    (job.a..(BlockEnd(job.a, job.bw, cfg.width) - 1))
        \X (job.b..(BlockEnd(job.b, job.bw, cfg.height) - 1))

\* PathTracer::accumulateBlock, one row of the block per step.  A sample
\* touches nothing shared before its pixel's write, so the polls of
\* _isStopping within a row are taken as one poll at the row's start: the
\* block returns, or adds numSamples samples to every pixel of the row.
AccumulateBlock(e) ==
    LET j == exec[e].j
    IN  /\ e \in DOMAIN exec
        /\ exec[e].job.kind = "tile"
        /\ exec[e].pc = "run"
        /\ IF j >= BlockEnd(exec[e].job.b, exec[e].job.bw, cfg.height) \/ isStopping
           THEN /\ Return(e)
                /\ UNCHANGED acc
           ELSE /\ acc' = [p \in DOMAIN acc |->
                             IF p[2] = j /\ p \in BlockPixels(exec[e].job)
                             THEN acc[p] + exec[e].job.n ELSE acc[p]]
                /\ exec' = [exec EXCEPT ![e].j = j + 1]
                /\ UNCHANGED unfinished
        /\ UNCHANGED <<fixedVars, isStopping, numSamplesPerPixel, procs, nullDeref,
                       poolVars, rpc, rloc, processVars, mainVars>>

\* a search that does not poll _isStopping
SearchIgnoresStop(p) == ~procs[p].state
\* MLTProcess::accumulate: the condition of the while loop
SearchGoesOn(p) == ~isStopping /\ ~procs[p].state

\* MLTProcess::accumulate, the search for an initial state: an iteration
\* of the while loop that finds a path of non-zero luminance (only a scene
\* that has one lets it), or the loop's exit.  An iteration that finds
\* nothing changes nothing.
InitialStateSearch(e) ==
    LET p == exec[e].job.a
    IN  /\ e \in DOMAIN exec
        /\ exec[e].job.kind = "proc"
        /\ exec[e].pc = "init"
        /\ IF SearchGoesOn(p)
           THEN /\ cfg.lit
                /\ procs' = [procs EXCEPT ![p].state = TRUE]
                /\ UNCHANGED exec
           ELSE /\ exec' = [exec EXCEPT ![e].pc = "mut"]
                /\ UNCHANGED procs
        /\ UNCHANGED <<fixedVars, isStopping, numSamplesPerPixel, acc, nullDeref,
                       poolVars, unfinished, rpc, rloc, processVars, mainVars>>

\* a mutation loop that runs all its iterations
MutationLoopEndsAtCount(i, numMutations) == i >= numMutations
\* MLTProcess::accumulate, the mutation loop: the loop condition fails or
\* the iteration begins with the break
MutationLoopEnds(i, numMutations) == i >= numMutations \/ isStopping

\* MLTProcess::accumulate, the mutation loop: one iteration, or the loop's
\* exit with the update of _averageSamplesPerPixel.  Every step adds weight
\* one to the histogram (the current colour, or 1 - alpha and alpha).
MutationStep(e) ==
    LET p == exec[e].job.a
        i == exec[e].i
    IN  /\ e \in DOMAIN exec
        /\ exec[e].job.kind = "proc"
        /\ exec[e].pc = "mut"
        /\ IF MutationLoopEnds(i, exec[e].job.n)
           THEN /\ procs' = [procs EXCEPT ![p].muts = @ + exec[e].job.n]
                /\ Return(e)
                /\ UNCHANGED nullDeref
           ELSE /\ IF procs[p].state
                   THEN /\ procs' = [procs EXCEPT ![p].hist = @ + 1]
                        /\ UNCHANGED nullDeref
                   ELSE /\ nullDeref' = TRUE
                        /\ UNCHANGED procs
                /\ exec' = [exec EXCEPT ![e].i = i + 1]
                /\ UNCHANGED unfinished
        /\ UNCHANGED <<fixedVars, isStopping, numSamplesPerPixel, acc,
                       poolVars, rpc, rloc, processVars, mainVars>>

(***************************************************************************)
(* RenderProcess::renderLoop, with PathTracer::accumulate and               *)
(* MLT::accumulate                                                         *)
(***************************************************************************)
\* MLT::accumulate: numMutationsPerProcess
NumMutationsPerProcess(numSamples) ==
    (numSamples * cfg.width * cfg.height) \div NumProcesses

\* the work the render thread runs itself when there is no pool
FirstInlineJob(numSamples) ==
    IF cfg.usePT
    THEN TileJob(0, 0, Max(cfg.width, cfg.height), numSamples)
    ELSE ProcJob(1, NumMutationsPerProcess(numSamples))

\* the loop condition of renderLoop and the call of accumulate
LoopTest(t) ==
    /\ rpc[t] = "loop"
    /\ numSamplesPerPixel < NumSamplesToTake =>
           (numSamplesPerPixel < MaxSpp \/ isStopping)
    /\ IF numSamplesPerPixel < NumSamplesToTake
       THEN IF HasPool
            THEN /\ rpc' = [rpc EXCEPT ![t] = "submit"]
                 /\ rloc' = [rloc EXCEPT ![t].si = 0, ![t].sj = 0, ![t].sp = 1]
                 /\ UNCHANGED exec
            ELSE /\ rpc' = [rpc EXCEPT ![t] = "inline"]
                 /\ exec' = [exec EXCEPT
                                ![RId(t)] = Start(FirstInlineJob(rloc[t].step))]
                 /\ UNCHANGED rloc
       ELSE /\ rpc' = [rpc EXCEPT ![t] = "exited"]
            /\ rloc' = [rloc EXCEPT ![t] = RenderLocals]
            /\ UNCHANGED exec
    /\ UNCHANGED <<fixedVars, rendererVars, poolVars, unfinished, processVars, mainVars>>

\* PathTracer::accumulate: the tile after the one at (i, j), in the order of
\* the two for loops
TileAfter(i, j) ==
    IF i + BlockWidth < cfg.width
    THEN <<i + BlockWidth, j>>
    ELSE <<0, j + BlockWidth>>

\* PathTracer::accumulate with a pool: one iteration of the tile loops up
\* to the release of the mutex in assignWork, or the loops' end and the call
\* of pool->wait()
PathTracerSubmit(t) ==
    LET i == rloc[t].si
        j == rloc[t].sj
    IN  /\ rpc[t] = "submit"
        /\ cfg.usePT
        /\ IF j < cfg.height
           THEN /\ AssignWork(TileJob(i, j, BlockWidth, rloc[t].step))
                /\ rloc' = [rloc EXCEPT ![t].si = TileAfter(i, j)[1],
                                        ![t].sj = TileAfter(i, j)[2]]
                /\ rpc' = [rpc EXCEPT ![t] = "notify"]
           ELSE /\ rpc' = [rpc EXCEPT ![t] = "wait"]
                /\ UNCHANGED <<rloc, workQueue, numActiveTasks, unfinished>>
        /\ UNCHANGED <<fixedVars, rendererVars, stopping, availWait, wpc, waitWait,
                       exec, processVars, mainVars>>

\* MLT::accumulate with a pool: one iteration of the loop over the
\* processes up to the release of the mutex in assignWork, or the loop's end
\* and the call of pool->wait()
MLTSubmit(t) ==
    LET p == rloc[t].sp
    IN  /\ rpc[t] = "submit"
        /\ ~cfg.usePT
        /\ IF p <= NumProcesses
           THEN /\ AssignWork(ProcJob(p, NumMutationsPerProcess(rloc[t].step)))
                /\ rloc' = [rloc EXCEPT ![t].sp = p + 1]
                /\ rpc' = [rpc EXCEPT ![t] = "notify"]
           ELSE /\ rpc' = [rpc EXCEPT ![t] = "wait"]
                /\ UNCHANGED <<rloc, workQueue, numActiveTasks, unfinished>>
        /\ UNCHANGED <<fixedVars, rendererVars, stopping, availWait, wpc, waitWait,
                       exec, processVars, mainVars>>

\* ThreadPool::assignWork, after the mutex: _availableWorkCV.notify_one()
SubmitNotify(t) ==
    /\ rpc[t] = "notify"
    /\ NotifyOneAvailable
    /\ rpc' = [rpc EXCEPT ![t] = "submit"]
    /\ UNCHANGED <<fixedVars, rendererVars, stopping, numActiveTasks, workQueue,
                   waitWait, exec, unfinished, rloc, processVars, mainVars>>

\* ThreadPool::wait, called by the render thread: return, or block
PoolWait(t) ==
    /\ rpc[t] = "wait"
    /\ IF WaitPredicate
       THEN /\ rpc' = [rpc EXCEPT ![t] = "accdone"]
            /\ UNCHANGED waitWait
       ELSE /\ rpc' = [rpc EXCEPT ![t] = "blocked"]
            /\ waitWait' = waitWait \cup {RId(t)}
    /\ UNCHANGED <<fixedVars, rendererVars, stopping, numActiveTasks, workQueue,
                   availWait, wpc, exec, unfinished, rloc, processVars, mainVars>>

\* a condition variable may release a waiter without a notification
WaitSpuriousWakeup(t) ==
    /\ rpc[t] = "blocked"
    /\ RId(t) \in waitWait
    /\ waitWait' = waitWait \ {RId(t)}
    /\ rpc' = [rpc EXCEPT ![t] = "wait"]
    /\ UNCHANGED <<fixedVars, rendererVars, stopping, numActiveTasks, workQueue,
                   availWait, wpc, exec, unfinished, rloc, processVars, mainVars>>

\* accumulate without a pool: the inline call has returned; MLT goes on to
\* its next process
InlineReturn(t) ==
    LET job == exec[RId(t)].job
    IN  /\ rpc[t] = "inline"
        /\ exec[RId(t)].pc = "ret"
        /\ IF job.kind = "proc" /\ job.a < NumProcesses
           THEN /\ exec' = [exec EXCEPT ![RId(t)] = Start(ProcJob(job.a + 1, job.n))]
                /\ UNCHANGED rpc
           ELSE /\ exec' = [exec EXCEPT ![RId(t)] = Idle]
                /\ rpc' = [rpc EXCEPT ![t] = "accdone"]
        /\ UNCHANGED <<fixedVars, rendererVars, poolVars, unfinished, rloc,
                       processVars, mainVars>>

\* the last statement of accumulate
AccumulateDone(t) ==
    /\ rpc[t] = "accdone"
    /\ numSamplesPerPixel' = numSamplesPerPixel + rloc[t].step
    /\ rpc' = [rpc EXCEPT ![t] = "check"]
    /\ UNCHANGED <<fixedVars, isStopping, acc, procs, nullDeref, poolVars, exec,
                   unfinished, rloc, processVars, mainVars>>

\* a step size that doubles after every pass
NextStepSizeUnbounded(sampleStepSize) == sampleStepSize * 2
\* sampleStepSize after a pass
NextStepSize(sampleStepSize) ==
    IF sampleStepSize < MaxNumSamplesPerStep
    THEN sampleStepSize * 2 ELSE sampleStepSize

\* a render loop that goes on to publish whatever accumulate left
LoopNeverBreaks == FALSE
\* renderLoop after accumulate: if (_renderer.isStopping()) break
LoopBreaks == isStopping

\* renderLoop after accumulate: break when stopping, else grow the step
CheckStopping(t) ==
    /\ rpc[t] = "check"
    /\ IF LoopBreaks
       THEN /\ rpc' = [rpc EXCEPT ![t] = "exited"]
            /\ rloc' = [rloc EXCEPT ![t] = RenderLocals]
       ELSE /\ rpc' = [rpc EXCEPT ![t] = "update"]
            /\ rloc' = [rloc EXCEPT ![t].step = NextStepSize(@)]
    /\ UNCHANGED <<fixedVars, rendererVars, poolVars, exec, unfinished,
                   processVars, mainVars>>

\* a render loop that draws into the buffer on show
UpdateFront == front
\* the buffer _renderer.updateFrameBuffer is given by renderLoop
UpdateTarget == back

\* _renderer.updateFrameBuffer(*_backBuffer): the image now shows the
\* accumulated samples
UpdateFrameBuffer(t) ==
    /\ rpc[t] = "update"
    /\ frames' = [frames EXCEPT ![UpdateTarget] = numSamplesPerPixel]
    /\ rpc' = [rpc EXCEPT ![t] = "swap"]
    /\ UNCHANGED <<fixedVars, rendererVars, poolVars, exec, unfinished, rloc,
                   thread, front, back, mainVars>>

\* an exchange that loses the back buffer
KeepFront == front
\* the value std::swap gives _frontBuffer
SwappedFront == back

\* std::swap(_frontBuffer, _backBuffer)
SwapBuffers(t) ==
    /\ rpc[t] = "swap"
    /\ front' = SwappedFront
    /\ back' = front
    /\ rpc' = [rpc EXCEPT ![t] = "loop"]
    /\ UNCHANGED <<fixedVars, rendererVars, poolVars, exec, unfinished, rloc,
                   thread, frames, mainVars>>

\* RenderProcess::frameBuffer: the buffer the presenter is given
FrameBuffer == front

(***************************************************************************)
(* Application::run, RenderProcess::reset and the destructors              *)
(***************************************************************************)
\* the user may still give input that changes the camera
InputAllowed == resets < MaxResets

\* one pass through the main loop up to the camera update: the front buffer
\* is drawn and the events are polled.  The window has been closed (run
\* returns and the destructor of renderProcess starts), or a movement key is
\* held, or the mouse was dragged; with no input the pass changes nothing.
MainPoll ==
    /\ mpc = "loop"
    /\ \/ /\ mpc' = "dtor_stop"
          /\ UNCHANGED mloc
       \/ /\ InputAllowed
          /\ \E dragged \in BOOLEAN :
                /\ mloc' = [mloc EXCEPT !.dragged = dragged]
                /\ mpc' = "move"
       \/ /\ InputAllowed
          /\ mpc' = "rotate"
          /\ UNCHANGED mloc
    /\ UNCHANGED <<fixedVars, rendererVars, poolVars, exec, unfinished, rpc, rloc,
                   processVars, resets, camera>>

\* Camera::move and Camera::rotate: the camera is no longer what it was
CameraMove(c) == 1 - c
CameraRotate(c) == 1 - c

\* _scene.camera.move(...); renderNeedsReset = true
MainMove ==
    /\ mpc = "move"
    /\ camera' = CameraMove(camera)
    /\ mpc' = IF mloc.dragged THEN "rotate" ELSE "reset_stop"
    /\ mloc' = [mloc EXCEPT !.dragged = FALSE]
    /\ UNCHANGED <<fixedVars, rendererVars, poolVars, exec, unfinished, rpc, rloc,
                   processVars, resets>>

\* _scene.camera.rotate(...); renderNeedsReset = true, so reset() is called
MainRotate ==
    /\ mpc = "rotate"
    /\ camera' = CameraRotate(camera)
    /\ mpc' = "reset_stop"
    /\ UNCHANGED <<fixedVars, rendererVars, poolVars, exec, unfinished, rpc, rloc,
                   processVars, mloc, resets>>

\* a join that does not wait for the thread
JoinReturnsAtOnce(t) == TRUE
\* std::thread::join returns once the thread's function has returned
JoinReturns(t) == rpc[t] = "exited"

\* RenderProcess::reset: _renderer.stop()
ResetStop ==
    /\ mpc = "reset_stop"
    /\ isStopping' = TRUE
    /\ mpc' = "reset_join"
    /\ UNCHANGED <<fixedVars, numSamplesPerPixel, acc, procs, nullDeref, poolVars,
                   exec, unfinished, rpc, rloc, processVars, mloc, resets, camera>>

\* RenderProcess::reset: _thread.join()
ResetJoin ==
    /\ mpc = "reset_join"
    /\ JoinReturns(thread)
    /\ mpc' = "reset_renderer"
    /\ UNCHANGED <<fixedVars, rendererVars, poolVars, exec, unfinished, rpc, rloc,
                   processVars, mloc, resets, camera>>

\* MLTProcess::reset
ProcessReset(proc) == [proc EXCEPT !.hist = 0, !.muts = 0]

\* RenderProcess::reset: _renderer.reset(), that is PathTracer::reset or
\* MLT::reset, both starting with IRenderer::reset
ResetRenderer ==
    /\ mpc = "reset_renderer"
    /\ isStopping' = FALSE
    /\ acc' = [p \in Pixels |-> 0]
    /\ procs' = [p \in DOMAIN procs |-> ProcessReset(procs[p])]
    /\ numSamplesPerPixel' = 0
    /\ mpc' = "reset_start"
    /\ UNCHANGED <<fixedVars, nullDeref, poolVars, exec, unfinished, rpc, rloc,
                   processVars, mloc, resets, camera>>

\* RenderProcess::reset: a new render thread is assigned to _thread
ResetStart ==
    /\ mpc = "reset_start"
    /\ thread' = thread + 1
    /\ rpc' = [rpc EXCEPT ![thread + 1] = "loop"]
    /\ rloc' = [rloc EXCEPT ![thread + 1] = RenderLocals]
    /\ resets' = resets + 1
    /\ mpc' = "loop"
    /\ UNCHANGED <<fixedVars, rendererVars, poolVars, exec, unfinished,
                   front, back, frames, mloc, camera>>

\* RenderProcess::~RenderProcess: _renderer.stop()
DtorStop ==
    /\ mpc = "dtor_stop"
    /\ isStopping' = TRUE
    /\ mpc' = "dtor_join"
    /\ UNCHANGED <<fixedVars, numSamplesPerPixel, acc, procs, nullDeref, poolVars,
                   exec, unfinished, rpc, rloc, processVars, mloc, resets, camera>>

\* RenderProcess::~RenderProcess: _thread.join(); the members are destroyed
\* next, the pool first
DtorJoin ==
    /\ mpc = "dtor_join"
    /\ JoinReturns(thread)
    /\ mpc' = IF HasPool THEN "pool_dtor" ELSE "done"
    /\ UNCHANGED <<fixedVars, rendererVars, poolVars, exec, unfinished, rpc, rloc,
                   processVars, mloc, resets, camera>>

\* ThreadPool::~ThreadPool: _stopping = true under the mutex
PoolDestroy ==
    /\ mpc = "pool_dtor"
    /\ stopping' = TRUE
    /\ mpc' = "pool_notify"
    /\ UNCHANGED <<fixedVars, rendererVars, numActiveTasks, workQueue, availWait,
                   waitWait, wpc, exec, unfinished, rpc, rloc, processVars,
                   mloc, resets, camera>>

\* ThreadPool::~ThreadPool: _availableWorkCV.notify_all()
PoolNotifyAll ==
    /\ mpc = "pool_notify"
    /\ NotifyAllAvailable
    /\ mpc' = "pool_join"
    /\ UNCHANGED <<fixedVars, rendererVars, stopping, numActiveTasks, workQueue,
                   waitWait, exec, unfinished, rpc, rloc, processVars,
                   mloc, resets, camera>>

\* ThreadPool::~ThreadPool: the joins of the workers
PoolJoin ==
    /\ mpc = "pool_join"
    /\ \A w \in DOMAIN wpc : wpc[w] = "exited"
    /\ mpc' = "done"
    /\ UNCHANGED <<fixedVars, rendererVars, poolVars, exec, unfinished, rpc, rloc,
                   processVars, mloc, resets, camera>>

(***************************************************************************)
(* The program: main thread, render threads, pool workers                  *)
(***************************************************************************)
WorkerNext(w) ==
    \/ WorkerTake(w)
    \/ WorkerSpuriousWakeup(w)
    \/ WorkerNotifyCompleted(w)

JobNext(e) ==
    \/ AccumulateBlock(e)
    \/ InitialStateSearch(e)
    \/ MutationStep(e)

RenderNext(t) ==
    \/ LoopTest(t)
    \/ PathTracerSubmit(t)
    \/ MLTSubmit(t)
    \/ SubmitNotify(t)
    \/ PoolWait(t)
    \/ WaitSpuriousWakeup(t)
    \/ InlineReturn(t)
    \/ AccumulateDone(t)
    \/ CheckStopping(t)
    \/ UpdateFrameBuffer(t)
    \/ SwapBuffers(t)

MainNext ==
    \/ MainPoll
    \/ MainMove
    \/ MainRotate
    \/ ResetStop
    \/ ResetJoin
    \/ ResetRenderer
    \/ ResetStart
    \/ DtorStop
    \/ DtorJoin
    \/ PoolDestroy
    \/ PoolNotifyAll
    \/ PoolJoin

Next ==
    \/ MainNext
    \/ \E t \in RenderThreads : RenderNext(t)
    \/ \E w \in 1..MaxJobs : WorkerNext(w)
    \/ \E e \in Executors : JobNext(e)

Spec == Init /\ [][Next]_vars

(***************************************************************************)
(* The same program under fair scheduling: a thread that can take a step   *)
(* eventually takes one.  A spurious wake-up is never owed, and neither is *)
(* the user's input or the closing of the window.                          *)
(***************************************************************************)
\* the steps of the code a render thread runs, its inline work included
RenderProgress(t) ==
    \/ LoopTest(t)
    \/ PathTracerSubmit(t)
    \/ MLTSubmit(t)
    \/ SubmitNotify(t)
    \/ PoolWait(t)
    \/ InlineReturn(t)
    \/ AccumulateDone(t)
    \/ CheckStopping(t)
    \/ UpdateFrameBuffer(t)
    \/ SwapBuffers(t)
    \/ JobNext(RId(t))

\* the steps of the code a pool worker runs, its work units included
WorkerProgress(w) ==
    \/ WorkerTake(w)
    \/ WorkerNotifyCompleted(w)
    \/ JobNext(w)

\* the steps of the main thread once it has decided what to do
MainProgress ==
    \/ MainMove
    \/ MainRotate
    \/ ResetStop
    \/ ResetJoin
    \/ ResetRenderer
    \/ ResetStart
    \/ DtorStop
    \/ DtorJoin
    \/ PoolDestroy
    \/ PoolNotifyAll
    \/ PoolJoin

Fairness ==
    /\ WF_vars(MainProgress)
    /\ \A t \in RenderThreads : WF_vars(RenderProgress(t))
    /\ \A w \in 1..MaxJobs : WF_vars(WorkerProgress(w))

FairSpec == Init /\ [][Next]_vars /\ Fairness

(***************************************************************************)
(* One pass of the path tracer for any image size: the render thread       *)
(* hands out the tiles (or starts its inline block) while the workers have *)
(* not yet been scheduled.                                                 *)
(***************************************************************************)
TileConfigs ==
    {[usePT |-> TRUE, numJobs |-> n, lit |-> TRUE, width |-> w, height |-> h] :
        n \in {1, MaxJobs}, w \in 1..TileMaxDim, h \in 1..TileMaxDim}

TileInit == InitWith(TileConfigs, 1, "loop")

TileNext ==
    \E t \in RenderThreads :
        \/ LoopTest(t)
        \/ PathTracerSubmit(t)
        \/ SubmitNotify(t)

TileSpec == TileInit /\ [][TileNext]_vars

(***************************************************************************)
(* A ThreadPool with a client that hands it some jobs, never waits for     *)
(* them and lets the pool go out of scope.                                 *)
(***************************************************************************)
PoolConfigs ==
    {[usePT |-> TRUE, numJobs |-> n, lit |-> TRUE,
      width |-> PTWidth, height |-> PTHeight] : n \in 2..MaxJobs}

PoolInit == InitWith(PoolConfigs, 0, "client")

\* the client calls assignWork with its next job, a tile of its own: the
\* block under the mutex
ClientAssign ==
    /\ mpc = "client"
    /\ mloc.submitted < MaxClientJobs
    /\ AssignWork(TileJob(mloc.submitted * BlockWidth, 0, BlockWidth, 1))
    /\ mloc' = [mloc EXCEPT !.submitted = @ + 1]
    /\ mpc' = "client_notify"
    /\ UNCHANGED <<fixedVars, rendererVars, stopping, availWait, waitWait, wpc,
                   exec, rpc, rloc, processVars, resets, camera>>

\* assignWork after the mutex: _availableWorkCV.notify_one()
ClientNotify ==
    /\ mpc = "client_notify"
    /\ NotifyOneAvailable
    /\ mpc' = "client"
    /\ UNCHANGED <<fixedVars, rendererVars, stopping, numActiveTasks, workQueue,
                   waitWait, exec, unfinished, rpc, rloc, processVars,
                   mloc, resets, camera>>

\* the pool goes out of scope
ClientLeaves ==
    /\ mpc = "client"
    /\ mpc' = "pool_dtor"
    /\ UNCHANGED <<fixedVars, rendererVars, poolVars, exec, unfinished, rpc, rloc,
                   processVars, mloc, resets, camera>>

PoolNext ==
    \/ ClientAssign
    \/ ClientNotify
    \/ ClientLeaves
    \/ PoolDestroy
    \/ PoolNotifyAll
    \/ PoolJoin
    \/ \E w \in 1..MaxJobs : WorkerNext(w)
    \/ \E w \in 1..MaxJobs : AccumulateBlock(w)

PoolSpec == PoolInit /\ [][PoolNext]_vars

\* the client finishes the call it is in and the destructor runs on; every
\* worker is scheduled
PoolFairness ==
    /\ WF_vars(ClientNotify \/ PoolDestroy \/ PoolNotifyAll \/ PoolJoin)
    /\ \A w \in 1..MaxJobs : WF_vars(WorkerProgress(w))

PoolFairSpec == PoolInit /\ [][PoolNext]_vars /\ PoolFairness

(***************************************************************************)
(* One MLTProcess in detail: the chain state and the four mutation         *)
(* kernels.  A path is held as its number of vertices and the luminance of *)
(* its evaluation; what the scene decides (whether a ray hits, what kind   *)
(* of bounce a vertex has, whether two vertices see each other, how much   *)
(* light a path carries) is an input of every step.                        *)
(***************************************************************************)
\* luminance(radiance) of a path that carries light
Luminances == {Rat(1, 2), Rat(2, 1)}
\* the radiance and russianRouletteRadiance luminances evaluate may give
Lights ==
    {[lum |-> Zero, rr |-> Zero]} \cup {[lum |-> l, rr |-> r] : l, r \in Luminances}
\* PI * invGeometryTerm(a, b): positive, infinite when a cosine is zero
Connections == {Rat(1, 2), PlusInf}
\* the scene's answers during a bidirectional mutation: is the first vertex
\* of the suffix diffuse, does every new ray hit, is the last new vertex
\* diffuse, does it see the suffix.  One unfavourable answer that is asked
\* for ends the mutation like any other, so the answers are taken all
\* favourable or all unfavourable.
SceneAnswers ==
    {[suffixDiffuse |-> b, hit |-> b, lastDiffuse |-> b, visible |-> b] :
        b \in BOOLEAN}

\* an evaluation that finds light on a path of any length
EvaluateAnyLength(len, light) == light
\* evaluate: its loop runs for the vertices 1 .. size - 2, so a path of fewer
\* than three vertices has radiance zero
Evaluate(len, light) == IF len < 3 THEN [lum |-> Zero, rr |-> Zero] ELSE light

\* std::nullopt
Rejected(type) == [NoInfo EXCEPT !.type = type]
\* a MutationInfo with a proposal
Proposal(type, acceptance, len, e) ==
    [type |-> type, some |-> TRUE, acceptance |-> acceptance,
     len |-> len, lum |-> e.lum, rr |-> e.rr]

\* MLTProcess::computeNewPathMutation, the new path having len vertices
ComputeNewPathMutation(cur, len, light) ==
    LET e == Evaluate(len, light)
    IN  IF len <= 1 THEN Rejected("NewPath")
        ELSE Proposal("NewPath", MinOne(Div(e.rr, cur.rr)), len, e)

\* the values Txy and Tyx may have at the end of eyePathPerturbation: products
\* of inverse geometry terms and, for a multi-chain perturbation, of clamped
\* cosines
Transitions(multiChain) ==
    {One, Rat(1, 2), Rat(2, 1), PlusInf} \cup (IF multiChain THEN {Zero, NaN} ELSE {})

\* MLTProcess::eyePathPerturbation.  fate is how the walk along the current
\* path ends: "rejected" (a return of std::nullopt), "early" (the return in
\* the loop, at a diffuse last vertex, with the acceptance and evaluation a
\* MutationInfo is initialised with) or "evaluated"
EyePathPerturbation(cur, multiChain, fate, Txy, Tyx, light) ==
    LET type == IF multiChain THEN "MultiChain" ELSE "Lens"
        e == Evaluate(cur.len, light)
    IN  IF fate = "rejected" THEN Rejected(type)
        ELSE IF fate = "early"
        THEN Proposal(type, Zero, cur.len, [lum |-> One, rr |-> One])
        ELSE Proposal(type, MinOne(Div(Mul(e.lum, Txy), Mul(cur.lum, Tyx))),
                      cur.len, e)

\* the path length the code divides the second pd by
SecondPdLength(currentLength, newLength) == currentLength

\* MLTProcess::bidirectionalMutation with deletedLength d, first deleted
\* index s and addedLength a
BidirectionalMutation(cur, d, s, a, scene, gNew, gOld, light) ==
    LET currentLength == cur.len
        t == s + d + 1
        newLength == currentLength + a - d
        connects == t < currentLength
        Tyx0 == IF connects /\ 1 + s + a > 1 THEN gNew ELSE One
        Txy0 == IF connects /\ t > 1 THEN gOld ELSE One
        pd1 == Div(ClippedPdf(currentLength - 1, d), Rat(currentLength - d, 1))
        pa1 == TwoSidedPdf(0, d, MaxLength - currentLength + d, a)
        Tyx == Mul(Tyx0, Mul(pd1, pa1))
        pd2 == Div(ClippedPdf(newLength - 1, a),
                   Rat(SecondPdLength(currentLength, newLength) - a, 1))
        pa2 == TwoSidedPdf(0, a, MaxLength - newLength + a, d)
        Txy == Mul(Txy0, Mul(pd2, pa2))
        e == Evaluate(newLength, light)
    IN  IF connects /\ ~scene.suffixDiffuse THEN Rejected("Bidirectional")
        ELSE IF a > 0 /\ ~scene.hit THEN Rejected("Bidirectional")
        ELSE IF connects /\ (s + a = 0 \/ ~scene.lastDiffuse)
        THEN Rejected("Bidirectional")
        ELSE IF connects /\ ~scene.visible THEN Rejected("Bidirectional")
        ELSE Proposal("Bidirectional",
                      MinOne(Div(Mul(e.lum, Txy), Mul(cur.lum, Tyx))),
                      newLength, e)

programVars == <<cfg, rendererVars, poolVars, exec, unfinished, rpc, rloc,
                 processVars, mainVars>>
nonChainVars == <<programVars, callVars, bvhVars, path, args, mp>>

\* MLTProcess::accumulate, an iteration of the first loop that finds a path
\* of luminance above Epsilon
ChainSearch ==
    /\ ~chain.has
    /\ \E len \in 1..MaxLength, light \in Lights :
          LET e == Evaluate(len, light)
          IN  /\ Less(Epsilon, e.lum)
              /\ chain' = [has |-> TRUE, len |-> len, lum |-> e.lum, rr |-> e.rr]
    /\ UNCHANGED <<info, nonChainVars>>

\* MLTProcess::accumulate, a mutation step up to the return of the kernel
\* computeRandomMutation has chosen
Propose(result) ==
    /\ chain.has
    /\ info = NoInfo
    /\ info' = result
    /\ UNCHANGED <<chain, nonChainVars>>

\* MLTProcess::accumulate, the rest of a mutation step: the proposal replaces
\* the state when PCG32::rand(), a value in [0, 1), is below the acceptance;
\* the MutationInfo ends with the iteration
Adopt ==
    /\ info # NoInfo
    /\ IF ~info.some \/ Less(info.lum, Epsilon)
       THEN UNCHANGED chain
       ELSE \/ /\ info.acceptance[1] > 0
               /\ chain' = [has |-> TRUE, len |-> info.len,
                            lum |-> info.lum, rr |-> info.rr]
            \/ /\ info.acceptance # One
               /\ UNCHANGED chain
    /\ info' = NoInfo
    /\ UNCHANGED nonChainVars

NewPathStep ==
    \E len \in 1..MaxLength, light \in Lights :
       Propose(ComputeNewPathMutation(chain, len, light))

LensStep ==
    \E fate \in {"rejected", "early", "evaluated"}, light \in Lights :
    \E Txy \in Transitions(FALSE), Tyx \in Transitions(FALSE) :
       Propose(EyePathPerturbation(chain, FALSE, fate, Txy, Tyx, light))

MultiChainStep ==
    \E fate \in {"rejected", "early", "evaluated"}, light \in Lights :
    \E Txy \in Transitions(TRUE), Tyx \in Transitions(TRUE) :
       Propose(EyePathPerturbation(chain, TRUE, fate, Txy, Tyx, light))

BidirectionalStep ==
    /\ chain.has
    /\ \E d \in 0..(chain.len - 1) :
       \E s \in 0..(chain.len - d - 1) :
       \E a \in 0..(MaxLength - chain.len + d) :
       \E scene \in SceneAnswers, light \in Lights :
       \E gNew \in Connections, gOld \in Connections :
          Propose(BidirectionalMutation(chain, d, s, a, scene, gNew, gOld, light))

ChainConfigs ==
    {[usePT |-> FALSE, numJobs |-> 1, lit |-> TRUE,
      width |-> MLTWidth, height |-> MLTHeight]}

ChainInit == InitWith(ChainConfigs, 1, "loop")

ChainNext ==
    \/ ChainSearch
    \/ NewPathStep
    \/ LensStep
    \/ MultiChainStep
    \/ BidirectionalStep
    \/ Adopt

ChainSpec == ChainInit /\ [][ChainNext]_vars

(***************************************************************************)
(* One BVH in detail: BVH::BVH with the calls of BVH::split it makes, and  *)
(* BVH::intersect.  Coordinates are whole numbers, so that every float the *)
(* code computes is held exactly; the bounds of an empty box are the       *)
(* infinities the code initialises them with.                              *)
(***************************************************************************)
F(i) == <<i, 1>>
MinusInf == <<0 - 1, 0>>
Neg(x) == <<0 - x[1], x[2]>>

\* x + y
Add(x, y) ==
    IF IsNaN(x) \/ IsNaN(y) THEN NaN
    ELSE IF x[2] = 0 THEN (IF y[2] = 0 /\ y[1] # x[1] THEN NaN ELSE x)
    ELSE IF y[2] = 0 THEN y
    ELSE Rat(x[1] * y[2] + y[1] * x[2], x[2] * y[2])

\* x - y
Minus(x, y) == Add(x, Neg(y))

\* x < y (false when either is NaN)
Lt(x, y) ==
    IF IsNaN(x) \/ IsNaN(y) THEN FALSE
    ELSE IF x[2] = 0 /\ y[2] = 0 THEN x[1] < y[1]
    ELSE x[1] * y[2] < y[1] * x[2]

\* x <= y (false when either is NaN)
Leq(x, y) == ~IsNaN(x) /\ ~IsNaN(y) /\ ~Lt(y, x)

\* glm::min(x, y): (y < x) ? y : x
GlmMin(x, y) == IF Lt(y, x) THEN y ELSE x
\* glm::max(x, y): (x < y) ? y : x
GlmMax(x, y) == IF Lt(x, y) THEN y ELSE x

VSub(a, b) == <<a[1] - b[1], a[2] - b[2], a[3] - b[3]>>
Dot(a, b) == a[1] * b[1] + a[2] * b[2] + a[3] * b[3]
Cross(a, b) ==
    <<a[2] * b[3] - a[3] * b[2], a[3] * b[1] - a[1] * b[3], a[1] * b[2] - a[2] * b[1]>>

\* an AABB as its member initialisers leave it
EmptyAABB ==
    [min |-> <<PlusInf, PlusInf, PlusInf>>, max |-> <<MinusInf, MinusInf, MinusInf>>]

\* AABB::getSize(axis), axis counted from 0
GetSize(box, axis) == Minus(box.max[axis + 1], box.min[axis + 1])

\* AABB::halfArea
HalfArea(box) ==
    LET x == GetSize(box, 0)
        y == GetSize(box, 1)
        z == GetSize(box, 2)
    IN  Add(Mul(x, Add(y, z)), Mul(y, z))

\* BVH::Triangle::center, one coordinate
Center(triangle, axis) ==
    Rat(triangle.positions[1][axis + 1] + triangle.positions[2][axis + 1]
          + triangle.positions[3][axis + 1], 3)

NumSplits == 5
MaxNumTrianglesInLeaf == 4

\* the triangle is one of those a box is grown by: all of them, or those
\* evaluateSplit finds left or right of the plane
OnSide(triangle, axis, splitPosition, side) ==
    \/ side = "all"
    \/ side = "left" /\ Lt(Center(triangle, axis), splitPosition)
    \/ side = "right" /\ ~Lt(Center(triangle, axis), splitPosition)

\* position j (counted from 0) of a sequence of triangles: position j % 3 of
\* triangle j / 3
Position(triangles, j) == triangles[(j \div 3) + 1].positions[(j % 3) + 1]

\* AABB::fit applied to the positions from j on of the triangles of one
\* side: coordinate a of _min, which fit lowers to every smaller coordinate
RECURSIVE FitMin(_, _, _, _, _, _, _)
FitMin(min, triangles, j, a, axis, splitPosition, side) ==
    IF j = 3 * Len(triangles) THEN min
    ELSE IF /\ OnSide(triangles[(j \div 3) + 1], axis, splitPosition, side)
            /\ Lt(F(Position(triangles, j)[a]), min)
    THEN FitMin(F(Position(triangles, j)[a]), triangles, j + 1, a, axis,
                splitPosition, side)
    ELSE FitMin(min, triangles, j + 1, a, axis, splitPosition, side)

\* the same for coordinate a of _max, which fit raises
RECURSIVE FitMax(_, _, _, _, _, _, _)
FitMax(max, triangles, j, a, axis, splitPosition, side) ==
    IF j = 3 * Len(triangles) THEN max
    ELSE IF /\ OnSide(triangles[(j \div 3) + 1], axis, splitPosition, side)
            /\ Lt(max, F(Position(triangles, j)[a]))
    THEN FitMax(F(Position(triangles, j)[a]), triangles, j + 1, a, axis,
                splitPosition, side)
    ELSE FitMax(max, triangles, j + 1, a, axis, splitPosition, side)

\* an empty AABB after it is fit to every position of the triangles of one
\* side
SideBox(triangles, axis, splitPosition, side) ==
    [min |-> <<FitMin(PlusInf, triangles, 0, 1, axis, splitPosition, side),
               FitMin(PlusInf, triangles, 0, 2, axis, splitPosition, side),
               FitMin(PlusInf, triangles, 0, 3, axis, splitPosition, side)>>,
     max |-> <<FitMax(MinusInf, triangles, 0, 1, axis, splitPosition, side),
               FitMax(MinusInf, triangles, 0, 2, axis, splitPosition, side),
               FitMax(MinusInf, triangles, 0, 3, axis, splitPosition, side)>>]

\* the SplitInfo evaluateSplit returns for the boxes and the count it found
SplitInfo(axis, splitPosition, leftBBox, rightBBox, numLeft, numRight) ==
    [axis |-> axis, position |-> splitPosition,
     leftBBox |-> leftBBox, rightBBox |-> rightBBox,
     numLeft |-> numLeft, numRight |-> numRight,
     leftCost |-> Mul(F(numLeft), HalfArea(leftBBox)),
     rightCost |-> Mul(F(numRight), HalfArea(rightBBox))]

\* info.numLeft after the loop of evaluateSplit
NumLeft(triangles, axis, splitPosition) ==
    Cardinality({i \in 1..Len(triangles) :
                    Lt(Center(triangles[i], axis), splitPosition)})

\* evaluateSplit
EvaluateSplit(triangles, axis, splitPosition) ==
    SplitInfo(axis, splitPosition,
              SideBox(triangles, axis, splitPosition, "left"),
              SideBox(triangles, axis, splitPosition, "right"),
              NumLeft(triangles, axis, splitPosition),
              Len(triangles) - NumLeft(triangles, axis, splitPosition))

\* bestCost and bestSplit of trySplitAndPartition before any split is tried
NoSplit(bestCost) == [found |-> FALSE, cost |-> bestCost]

\* getBoundsMin(axis) + (split + 1) * (getBoundsSize(axis) / (NumSplits + 1))
SplitPosition(bounds, axis, split) ==
    Add(bounds.min[axis + 1],
        Mul(F(split + 1), Div(GetSize(bounds, axis), F(NumSplits + 1))))

\* the loops of trySplitAndPartition over the axes and the split planes, from
\* candidate c on (axis c / NumSplits, plane c % NumSplits); KeepBest is the
\* end of a round, splitInfo being what evaluateSplit returned in it
RECURSIVE BestSplit(_, _, _, _)
KeepBest(bounds, triangles, c, best, splitInfo) ==
    IF Lt(Add(splitInfo.leftCost, splitInfo.rightCost), best.cost)
    THEN BestSplit(bounds, triangles, c + 1,
                   [found |-> TRUE,
                    cost |-> Add(splitInfo.leftCost, splitInfo.rightCost),
                    info |-> splitInfo])
    ELSE BestSplit(bounds, triangles, c + 1, best)

BestSplit(bounds, triangles, c, best) ==
    IF c = 3 * NumSplits THEN best
    ELSE KeepBest(bounds, triangles, c, best,
                  EvaluateSplit(triangles, c \div NumSplits,
                                SplitPosition(bounds, c \div NumSplits,
                                              c % NumSplits)))

Swap(s, i, j) == [s EXCEPT ![i] = s[j], ![j] = s[i]]

\* the partition loop of trySplitAndPartition from element i on
RECURSIVE Partition(_, _, _, _, _)
Partition(triangles, i, numLeft, axis, position) ==
    IF i > Len(triangles) THEN triangles
    ELSE IF Lt(Center(triangles[i], axis), position)
    THEN Partition(Swap(triangles, i, numLeft + 1), i + 1, numLeft + 1, axis, position)
    ELSE Partition(triangles, i + 1, numLeft, axis, position)

\* the end of trySplitAndPartition: for the split found, the triangles
\* firstTriangleIdx .. + numTriangles (counted from 0) are partitioned
Partitioned(firstTriangleIdx, numTriangles, triangles, bestSplit) ==
    IF ~bestSplit.found THEN [found |-> FALSE, triangles |-> triangles]
    ELSE [found |-> TRUE, info |-> bestSplit.info,
          triangles |->
              SubSeq(triangles, 1, firstTriangleIdx)
              \o Partition(SubSeq(triangles, firstTriangleIdx + 1,
                                  firstTriangleIdx + numTriangles),
                           1, 0, bestSplit.info.axis, bestSplit.info.position)
              \o SubSeq(triangles, firstTriangleIdx + numTriangles + 1,
                        Len(triangles))]

\* trySplitAndPartition: the split found, and the triangles after it
TrySplitAndPartition(bounds, firstTriangleIdx, numTriangles, triangles, bestCost) ==
    Partitioned(firstTriangleIdx, numTriangles, triangles,
                BestSplit(bounds,
                          SubSeq(triangles, firstTriangleIdx + 1,
                                 firstTriangleIdx + numTriangles),
                          0, NoSplit(bestCost)))

\* AABB4(): four empty boxes
EmptyAABB4 == <<EmptyAABB, EmptyAABB, EmptyAABB, EmptyAABB>>

\* a BVH::Node; idx counts from 0 as in the code
Node(childBounds, idx, numTriangles) ==
    [childBounds |-> childBounds, idx |-> idx, numTriangles |-> numTriangles]

\* BVH::Node::isLeaf
IsLeaf(node) == node.numTriangles # 0

\* a pending call split(parentNodeIdx, childIdx, nodeCost, ...)
SplitCall(hasParent, parentNodeIdx, childIdx, nodeCost) ==
    [hasParent |-> hasParent, parentNodeIdx |-> parentNodeIdx,
     childIdx |-> childIdx, nodeCost |-> nodeCost]

\* BVH::triangles as the constructor fills it from mesh.triangles
Triangles(mesh) == [i \in 1..Len(mesh) |-> [positions |-> mesh[i], idx |-> i - 1]]

\* BVH::BVH(mesh, 0, Len(mesh)) up to its call of split
Construct(mesh) ==
    [pc |-> "build", mesh |-> mesh, triangles |-> Triangles(mesh),
     nodes |-> <<Node(EmptyAABB4, 0, Len(mesh))>>,
     rootBounds |-> SideBox(Triangles(mesh), 0, Zero, "all"),
     calls |-> <<SplitCall(FALSE, 0, 0,
                           Mul(F(Len(mesh)),
                               HalfArea(SideBox(Triangles(mesh), 0, Zero, "all"))))>>]

\* the node a call of BVH::split is about
NodeIdx(b, call) ==
    IF call.hasParent THEN b.nodes[call.parentNodeIdx + 1].idx + call.childIdx ELSE 0

\* the bounds its initial split divides
NodeBounds(b, call) ==
    IF call.hasParent
    THEN b.nodes[call.parentNodeIdx + 1].childBounds[call.childIdx + 1]
    ELSE b.rootBounds

\* BVH::split from "Construct child nodes" on
SplitInFour(b, call, nodeIdx, firstTriangle, left, right) ==
    [b EXCEPT
        !.triangles = right.triangles,
        !.nodes =
            [@ EXCEPT ![nodeIdx + 1] =
                Node(<<left.info.leftBBox, left.info.rightBBox,
                       right.info.leftBBox, right.info.rightBBox>>,
                     Len(b.nodes), 0)]
            \o <<Node(EmptyAABB4, firstTriangle, left.info.numLeft),
                 Node(EmptyAABB4, firstTriangle + left.info.numLeft,
                      left.info.numRight),
                 Node(EmptyAABB4,
                      firstTriangle + left.info.numLeft + left.info.numRight,
                      right.info.numLeft),
                 Node(EmptyAABB4,
                      firstTriangle + left.info.numLeft + left.info.numRight
                        + right.info.numLeft,
                      right.info.numRight)>>,
        !.calls =
            <<SplitCall(TRUE, nodeIdx, 0, left.info.leftCost),
              SplitCall(TRUE, nodeIdx, 1, left.info.rightCost),
              SplitCall(TRUE, nodeIdx, 2, right.info.leftCost),
              SplitCall(TRUE, nodeIdx, 3, right.info.rightCost)>> \o Tail(b.calls)]

\* BVH::split after its split of the right side
SplitRightDone(b, call, nodeIdx, left, right) ==
    IF ~right.found
         \/ Lt(call.nodeCost,
               Add(Add(Add(left.info.leftCost, left.info.rightCost),
                       right.info.leftCost), right.info.rightCost))
    THEN [b EXCEPT !.calls = Tail(b.calls), !.triangles = right.triangles]
    ELSE SplitInFour(b, call, nodeIdx, b.nodes[nodeIdx + 1].idx, left, right)

\* BVH::split after its split of the left side
SplitLeftDone(b, call, nodeIdx, initial, left) ==
    IF ~left.found
    THEN [b EXCEPT !.calls = Tail(b.calls), !.triangles = left.triangles]
    ELSE SplitRightDone(b, call, nodeIdx, left,
             TrySplitAndPartition(initial.info.rightBBox,
                                  b.nodes[nodeIdx + 1].idx + initial.info.numLeft,
                                  initial.info.numRight, left.triangles,
                                  call.nodeCost))

\* BVH::split after its initial split
SplitInitialDone(b, call, nodeIdx, initial) ==
    IF ~initial.found
    THEN [b EXCEPT !.calls = Tail(b.calls), !.triangles = initial.triangles]
    ELSE SplitLeftDone(b, call, nodeIdx, initial,
             TrySplitAndPartition(initial.info.leftBBox, b.nodes[nodeIdx + 1].idx,
                                  initial.info.numLeft, initial.triangles,
                                  call.nodeCost))

\* the body of one call of BVH::split on the BVH b: the BVH it leaves, with
\* the four calls it makes put in front of the pending ones
Split(b, call) ==
    IF b.nodes[NodeIdx(b, call) + 1].numTriangles <= MaxNumTrianglesInLeaf
    THEN [b EXCEPT !.calls = Tail(b.calls)]
    ELSE SplitInitialDone(b, call, NodeIdx(b, call),
             TrySplitAndPartition(NodeBounds(b, call),
                                  b.nodes[NodeIdx(b, call) + 1].idx,
                                  b.nodes[NodeIdx(b, call) + 1].numTriangles,
                                  b.triangles, call.nodeCost))

\* std::nullopt for a BVH::HitInfo
NoHit == [found |-> FALSE]

\* doesRayIntersectTriangle; with whole coordinates the determinant is below
\* its Epsilon (5e-7f) exactly when it is 0
DoesRayIntersectTriangle(ray, triangle, minDistance, maxDistance) ==
    LET ab == VSub(triangle.positions[1], triangle.positions[2])
        ac == VSub(triangle.positions[1], triangle.positions[3])
        ao == VSub(triangle.positions[1], ray.o)
        geometricNormal == Cross(ab, ac)
        determinant == Dot(geometricNormal, ray.d)
        beta == Rat(Dot(Cross(ao, ac), ray.d), determinant)
        gamma == Rat(Dot(Cross(ab, ao), ray.d), determinant)
        t == Rat(Dot(geometricNormal, ao), determinant)
    IN  IF determinant = 0 THEN NoHit
        ELSE IF Lt(beta, Zero) \/ Lt(One, beta) THEN NoHit
        ELSE IF Lt(gamma, Zero) \/ Lt(One, Add(beta, gamma)) THEN NoHit
        ELSE IF Lt(t, minDistance) \/ Lt(maxDistance, t) THEN NoHit
        ELSE [found |-> TRUE, idx |-> triangle.idx, distance |-> t]

\* hitInfo && (!closestHit || hitInfo->distance < closestHit->distance)
Closer(hitInfo, closestHit) ==
    hitInfo.found /\ (~closestHit.found \/ Lt(hitInfo.distance, closestHit.distance))

\* the scan of the triangles i .. last (counted from 1) of a sequence that
\* keeps the closest hit; KeepClosest is the end of a round, hitInfo being
\* what doesRayIntersectTriangle returned in it
RECURSIVE Scan(_, _, _, _, _, _, _)
KeepClosest(ray, triangles, i, last, minDistance, maxDistance, closestHit, hitInfo) ==
    IF Closer(hitInfo, closestHit)
    THEN Scan(ray, triangles, i + 1, last, minDistance, maxDistance, hitInfo)
    ELSE Scan(ray, triangles, i + 1, last, minDistance, maxDistance, closestHit)

Scan(ray, triangles, i, last, minDistance, maxDistance, closestHit) ==
    IF i > last THEN closestHit
    ELSE KeepClosest(ray, triangles, i, last, minDistance, maxDistance, closestHit,
                     DoesRayIntersectTriangle(ray, triangles[i], minDistance,
                                              maxDistance))

\* the entry and the exit parameter of one slab of AABB::intersect, after
\* its swap
Slab(box, ray, a) ==
    LET t1 == Div(Minus(box.min[a], F(ray.o[a])), F(ray.d[a]))
        t2 == Div(Minus(box.max[a], F(ray.o[a])), F(ray.d[a]))
    IN  IF Lt(t2, t1) THEN <<t2, t1>> ELSE <<t1, t2>>

\* AABB::intersect
AABBIntersect(box, ray) ==
    LET x == Slab(box, ray, 1)
        y == Slab(box, ray, 2)
        z == Slab(box, ray, 3)
        t1y == IF Lt(x[1], y[1]) THEN y[1] ELSE x[1]
        t1 == IF Lt(t1y, z[1]) THEN z[1] ELSE t1y
        t2y == IF Lt(y[2], x[2]) THEN y[2] ELSE x[2]
        t2 == IF Lt(z[2], t2y) THEN z[2] ELSE t2y
    IN  IF Lt(t2, t1) THEN [found |-> FALSE]
        ELSE IF Lt(t1, Zero) /\ Lt(t2, Zero) THEN [found |-> FALSE]
        ELSE [found |-> TRUE, distance |-> t1]

\* AABB4::intersect, one lane (glm::min and glm::max work per component)
AABB4Lane(box, ray) ==
    LET tmin(a) == Div(Minus(box.min[a], F(ray.o[a])), F(ray.d[a]))
        tmax(a) == Div(Minus(box.max[a], F(ray.o[a])), F(ray.d[a]))
        tx1 == GlmMin(tmin(1), tmax(1))
        tx2 == GlmMax(tmin(1), tmax(1))
        ty1 == GlmMin(tmin(2), tmax(2))
        ty2 == GlmMax(tmin(2), tmax(2))
        tz1 == GlmMin(tmin(3), tmax(3))
        tz2 == GlmMax(tmin(3), tmax(3))
        t1 == GlmMax(tx1, GlmMax(ty1, tz1))
        t2 == GlmMin(tx2, GlmMin(ty2, tz2))
    IN  [isHit |-> Leq(t1, t2) /\ ~(Lt(t1, Zero) /\ Lt(t2, Zero)), distance |-> t1]

\* AABB4::intersect
AABB4Intersect(childBounds, ray) ==
    <<AABB4Lane(childBounds[1], ray), AABB4Lane(childBounds[2], ray),
      AABB4Lane(childBounds[3], ray), AABB4Lane(childBounds[4], ray)>>

\* a TraversalStack::StackInfo
StackInfo(index, dist) == [index |-> index, dist |-> dist]

\* the lane the inner loop of BVH::intersect picks among the lanes i .. 4
\* (0: none), bestIdx being the lane picked so far
RECURSIVE BestLane(_, _, _, _)
BestLane(hitInfo, i, bestIdx, bestDist) ==
    IF i > 4 THEN bestIdx
    ELSE IF hitInfo[i].isHit /\ Lt(hitInfo[i].distance, bestDist)
    THEN BestLane(hitInfo, i + 1, i, hitInfo[i].distance)
    ELSE BestLane(hitInfo, i + 1, bestIdx, bestDist)

\* the outer loop of BVH::intersect over the children of node, from round
\* on: the stack after its pushes; PushBest is the end of a round, bestIdx
\* being the lane its inner loop picked
RECURSIVE PushChildren(_, _, _, _)
PushBest(stack, node, hitInfo, round, bestIdx) ==
    IF bestIdx = 0 THEN stack
    ELSE PushChildren(
             Append(stack, StackInfo(node.idx + bestIdx - 1, hitInfo[bestIdx].distance)),
             node, [hitInfo EXCEPT ![bestIdx].isHit = FALSE], round + 1)

PushChildren(stack, node, hitInfo, round) ==
    IF round = 4 THEN stack
    ELSE PushBest(stack, node, hitInfo, round, BestLane(hitInfo, 1, 0, PlusInf))

\* BVH::intersect up to its loop
StartIntersect(b, ray, minDistance, maxDistance) ==
    LET rootIntersection == AABBIntersect(b.rootBounds, ray)
    IN  [pc |-> IF rootIntersection.found THEN "loop" ELSE "done",
         ray |-> ray, minDistance |-> minDistance, maxDistance |-> maxDistance,
         stack |-> IF rootIntersection.found
                   THEN <<StackInfo(0, rootIntersection.distance)>> ELSE <<>>,
         closestHit |-> NoHit]

\* one round of the loop of BVH::intersect: nodes[index] past the end of the
\* vector is undefined behaviour, after which nothing is known of the call
LoopRound(b, t) ==
    LET top == t.stack[Len(t.stack)]
        popped == [t EXCEPT !.stack = SubSeq(t.stack, 1, Len(t.stack) - 1)]
        node == b.nodes[top.index + 1]
    IN  IF t.closestHit.found /\ Lt(t.closestHit.distance, top.dist) THEN popped
        ELSE IF top.index >= Len(b.nodes)
        THEN [popped EXCEPT !.pc = "undefined"]
        ELSE IF IsLeaf(node)
        THEN [popped EXCEPT !.closestHit =
                 Scan(t.ray, b.triangles, node.idx + 1, node.idx + node.numTriangles,
                      t.minDistance, t.maxDistance, t.closestHit)]
        ELSE [popped EXCEPT !.stack =
                 PushChildren(popped.stack, node, AABB4Intersect(node.childBounds, t.ray), 0)]

\* the brute-force scan of the mesh the BVH was built from
BruteForce(mesh, ray, minDistance, maxDistance) ==
    Scan(ray, Triangles(mesh), 1, Len(mesh), minDistance, maxDistance, NoHit)

\* the largest number of triangles of a mesh
MaxTriangles == 8

\* a triangle standing on the plane of the given x, and one leaning away
\* from it
Fence(x) == <<<<x, 0, 0>>, <<x, 4, 0>>, <<x, 0, 4>>>>
Slant(x) == <<<<x, 0, 0>>, <<x + 4, 4, 0>>, <<x, 0, 4>>>>

Layouts == {"row", "pile", "pairs", "uneven", "slanted"}

\* triangle i (counted from 0) of a mesh
MeshTriangle(layout, i) ==
    CASE layout = "row" -> Fence(12 * i)
      [] layout = "pile" -> Fence(0)
      [] layout = "pairs" -> Fence(12 * (i \div 2))
      [] layout = "uneven" -> Fence(IF i = 0 THEN 0 ELSE 60 + i)
      [] layout = "slanted" -> Slant(12 * i)

\* the triangle ranges a BVH is built over
Meshes ==
    {[i \in 1..n |-> MeshTriangle(layout, i - 1)] :
        layout \in Layouts, n \in 0..MaxTriangles}

\* the rays traced: along x through the triangles from either end, along x
\* past them, across the row, and along y in the plane x = 0
Rays ==
    {[o |-> <<0 - 2, 1, 1>>, d |-> <<1, 0, 0>>],
     [o |-> <<200, 1, 1>>, d |-> <<0 - 1, 0, 0>>],
     [o |-> <<0 - 2, 9, 9>>, d |-> <<1, 0, 0>>],
     [o |-> <<0 - 2, 0 - 1, 1>>, d |-> <<1, 1, 0>>],
     [o |-> <<0, 0 - 2, 1>>, d |-> <<0, 1, 0>>]}

\* Scene::intersect and hasVisibility pass a minDistance of 0 and a finite
\* or the largest maxDistance
MaxDistances == {F(20), PlusInf}

\* the outcomes of a call after its undefined read: it does not return, or
\* returns whatever the memory read made of it
UndefinedOutcomes ==
    {[pc |-> "crashed", closestHit |-> NoHit],
     [pc |-> "done", closestHit |-> NoHit],
     [pc |-> "done", closestHit |-> [found |-> TRUE, idx |-> 0, distance |-> Zero]]}

\* BVH::BVH
BvhConstruct ==
    /\ bvh.pc = "none"
    /\ \E mesh \in Meshes : bvh' = Construct(mesh)
    /\ UNCHANGED <<programVars, callVars, chainVars, path, args, mp, trav>>

\* one call of BVH::split; the constructor returns with the last
BvhSplit ==
    /\ bvh.pc = "build"
    /\ LET b == Split(bvh, Head(bvh.calls))
       IN  bvh' = [b EXCEPT !.pc = IF b.calls = <<>> THEN "built" ELSE "build"]
    /\ UNCHANGED <<programVars, callVars, chainVars, path, args, mp, trav>>

\* BVH::intersect is called
Intersect ==
    /\ bvh.pc = "built"
    /\ trav.pc = "idle"
    /\ \E ray \in Rays, maxDistance \in MaxDistances :
          trav' = StartIntersect(bvh, ray, Zero, maxDistance)
    /\ UNCHANGED <<programVars, callVars, chainVars, path, args, mp, bvh>>

\* one round of its loop
IntersectLoop ==
    /\ trav.pc = "loop"
    /\ LET t == LoopRound(bvh, trav)
       IN  IF t.pc = "undefined"
           THEN \E outcome \in UndefinedOutcomes :
                   trav' = [t EXCEPT !.pc = outcome.pc, !.stack = <<>>,
                                     !.closestHit = outcome.closestHit]
           ELSE trav' = [t EXCEPT !.pc = IF t.stack = <<>> THEN "done" ELSE "loop"]
    /\ UNCHANGED <<programVars, callVars, chainVars, path, args, mp, bvh>>

\* it returns closestHit
IntersectReturn ==
    /\ trav.pc = "done"
    /\ trav' = NoTraversal
    /\ UNCHANGED <<programVars, callVars, chainVars, path, args, mp, bvh>>

BvhInit == InitWith(ChainConfigs, 1, "loop")

BvhNext ==
    \/ BvhConstruct
    \/ BvhSplit
    \/ Intersect
    \/ IntersectLoop
    \/ IntersectReturn

BvhSpec == BvhInit /\ [][BvhNext]_vars

(***************************************************************************)
(* One Path in detail: Path::createRandomEyePath with the calls of         *)
(* Path::addBounce it makes, and Path::createRandomLightPath.  Of a vertex *)
(* the model keeps the bounce type.                                        *)
(***************************************************************************)
\* the largest number of lights of a scene
MaxLights == 2

\* what a scene holds: lights are primitives of its meshes
Scenes ==
    {[geometry |-> FALSE, lights |-> 0]}
    \cup {[geometry |-> TRUE, lights |-> n] : n \in 0..MaxLights}

\* Path::Vertex::BounceType of a sampled direction
BounceTypes == {"Diffuse", "Reflective", "Refractive"}

\* a loop that tests after the bounce instead
EyeLoopOneMore(p) == p.length <= MaxLength

\* while (p._pathLength < MaxLength)
EyeLoopGoesOn(p) == p.length < MaxLength

\* Path::createRandomEyePath up to its loop
CreateRandomEyePath ==
    /\ path.pc = "idle"
    /\ \E scene \in Scenes :
          path' = [pc |-> "eye", kind |-> "eye", scene |-> scene, length |-> 1,
                   bounces |-> <<"None">>]
    /\ UNCHANGED <<programVars, callVars, chainVars, bvhVars, args, mp>>

\* one round of its loop, a call of Path::addBounce: the ray misses the
\* scene, or its hit becomes a vertex where the path is terminated or goes
\* on with a sampled direction
AddBounce ==
    /\ path.pc = "eye"
    /\ EyeLoopGoesOn(path)
    /\ \/ path' = [path EXCEPT !.pc = "done"]
       \/ /\ path.scene.geometry
          /\ \/ path' = [path EXCEPT !.pc = "done", !.length = @ + 1,
                                      !.bounces = Append(@, "None")]
             \/ \E bounceType \in BounceTypes :
                   path' = [path EXCEPT !.length = @ + 1,
                                        !.bounces = Append(@, bounceType)]
    /\ UNCHANGED <<programVars, callVars, chainVars, bvhVars, args, mp>>

\* its loop ends with the path full
EyePathFull ==
    /\ path.pc = "eye"
    /\ ~EyeLoopGoesOn(path)
    /\ path' = [path EXCEPT !.pc = "done"]
    /\ UNCHANGED <<programVars, callVars, chainVars, bvhVars, args, mp>>

\* Path::createRandomLightPath
CreateRandomLightPath ==
    /\ path.pc = "idle"
    /\ \E scene \in Scenes :
          path' = IF scene.lights = 0
                  THEN [pc |-> "done", kind |-> "light", scene |-> scene,
                        length |-> 0, bounces |-> <<>>]
                  ELSE [pc |-> "done", kind |-> "light", scene |-> scene,
                        length |-> 1, bounces |-> <<"None">>]
    /\ UNCHANGED <<programVars, callVars, chainVars, bvhVars, args, mp>>

\* the caller is done with the path
PathDropped ==
    /\ path.pc = "done"
    /\ path' = NoPath
    /\ UNCHANGED <<programVars, callVars, chainVars, bvhVars, args, mp>>

PathInit == InitWith(ChainConfigs, 1, "loop")

PathNext ==
    \/ CreateRandomEyePath
    \/ AddBounce
    \/ EyePathFull
    \/ CreateRandomLightPath
    \/ PathDropped

PathSpec == PathInit /\ [][PathNext]_vars

(***************************************************************************)
(* The --mutations option: main, getEnabledMutationsFromString and         *)
(* matches.  A string is a sequence of characters.                         *)
(***************************************************************************)
\* the longest option value made of single characters
MaxChars == 4

UpperCase ==
    <<"A", "B", "C", "D", "E", "F", "G", "H", "I", "J", "K", "L", "M",
      "N", "O", "P", "Q", "R", "S", "T", "U", "V", "W", "X", "Y", "Z">>
LowerCase ==
    <<"a", "b", "c", "d", "e", "f", "g", "h", "i", "j", "k", "l", "m",
      "n", "o", "p", "q", "r", "s", "t", "u", "v", "w", "x", "y", "z">>

\* std::tolower
ToLower(c) ==
    IF \E i \in 1..26 : UpperCase[i] = c
    THEN LowerCase[CHOOSE i \in 1..26 : UpperCase[i] = c]
    ELSE c

\* the names the tokens are matched with, in the order of the tests
MutationNames == <<"newPathMutation", "lensPerturbation",
                   "multiChainPerturbation", "bidirectionalMutation">>

\* the characters of each name
MutationChars ==
    [newPathMutation |->
         <<"n", "e", "w", "P", "a", "t", "h", "M", "u", "t", "a", "t", "i", "o", "n">>,
     lensPerturbation |->
         <<"l", "e", "n", "s", "P", "e", "r", "t", "u", "r", "b", "a", "t", "i", "o", "n">>,
     multiChainPerturbation |->
         <<"m", "u", "l", "t", "i", "C", "h", "a", "i", "n", "P", "e", "r", "t", "u",
           "r", "b", "a", "t", "i", "o", "n">>,
     bidirectionalMutation |->
         <<"b", "i", "d", "i", "r", "e", "c", "t", "i", "o", "n", "a", "l", "M", "u",
           "t", "a", "t", "i", "o", "n">>]

\* the characters option values are made of
Chars == {"n", "N", "e", "l", "L", "m", "b", "x", ","}

RECURSIVE Strings(_)
Strings(n) ==
    IF n = 0 THEN {<<>>}
    ELSE Strings(n - 1) \cup {Append(string, c) : string \in Strings(n - 1), c \in Chars}

\* the values of the option: every short string, and some long ones
OptionValues ==
    Strings(MaxChars)
    \cup {MutationChars.newPathMutation,
          Append(MutationChars.newPathMutation, "s"),
          <<"L", "E", "N", "S", ",", "B", "i", "D", "i", "r">>,
          <<"n", "e", "w", ",", "l", "e", "n", "s">>,
          <<"m", "u", "l", "t", "i", ",", ",", "b", "i", "d", "i", ",">>}

\* matches, compared without std::tolower
MatchesCase(token, ref) ==
    /\ Len(token) <= Len(ref)
    /\ \A i \in 1..Len(token) : token[i] = ref[i]

\* matches
Matches(token, ref) ==
    /\ Len(token) <= Len(ref)
    /\ \A i \in 1..Len(token) : ToLower(token[i]) = ToLower(ref[i])

\* what std::getline(ss, token, ',') extracts from the rest of the stream:
\* the characters before the first comma
RECURSIVE GetLine(_)
GetLine(ss) ==
    IF ss = <<>> \/ Head(ss) = "," THEN <<>> ELSE <<Head(ss)>> \o GetLine(Tail(ss))

\* the rest of the stream after it: what follows that comma
AfterLine(ss) ==
    IF Len(GetLine(ss)) = Len(ss) THEN <<>>
    ELSE SubSeq(ss, Len(GetLine(ss)) + 2, Len(ss))

\* the name of the first test of getEnabledMutationsFromString the token
\* passes ("" if it passes none)
RECURSIVE FirstMatch(_, _)
FirstMatch(token, i) ==
    IF i > Len(MutationNames) THEN ""
    ELSE IF Matches(token, MutationChars[MutationNames[i]]) THEN MutationNames[i]
    ELSE FirstMatch(token, i + 1)

\* main: parser.parse_args stores the option; an empty string is not parsed
ParseArgs ==
    /\ args.pc = "start"
    /\ \E string \in OptionValues :
          args' = [args EXCEPT !.string = string, !.ss = string,
                               !.pc = IF string = <<>> THEN "parsed" ELSE "tokens"]
    /\ UNCHANGED <<programVars, callVars, chainVars, bvhVars, path, mp>>

\* one round of the loop of getEnabledMutationsFromString; its exception
\* is caught in main, which exits with code 1
NextToken ==
    /\ args.pc = "tokens"
    /\ args.ss # <<>>
    /\ IF GetLine(args.ss) = <<>>
       THEN args' = [args EXCEPT !.ss = AfterLine(args.ss)]
       ELSE IF FirstMatch(GetLine(args.ss), 1) # ""
       THEN args' = [args EXCEPT !.ss = AfterLine(args.ss),
                                 !.result[FirstMatch(GetLine(args.ss), 1)] = TRUE]
       ELSE args' = [args EXCEPT !.pc = "exit", !.exitCode = 1]
    /\ UNCHANGED <<programVars, callVars, chainVars, bvhVars, path, mp>>

\* std::getline fails at the end of the stream: the result is returned and
\* becomes enabledMutations
TokensDone ==
    /\ args.pc = "tokens"
    /\ args.ss = <<>>
    /\ args' = [args EXCEPT !.pc = "parsed", !.enabledMutations = args.result]
    /\ UNCHANGED <<programVars, callVars, chainVars, bvhVars, path, mp>>

ArgsInit == InitWith(ChainConfigs, 1, "loop")

ArgsNext ==
    \/ ParseArgs
    \/ NextToken
    \/ TokensDone

ArgsSpec == ArgsInit /\ [][ArgsNext]_vars

(***************************************************************************)
(* One MLT with one MLTProcess: the accumulation buffer, the counters      *)
(* computeScaleFactor reads, and the loop of MLTProcess::accumulate with   *)
(* the call of a kernel and the deposit that follows it as two steps.      *)
(* The state is chain together with mp.pixel, the proposal is info         *)
(* together with mp.newPixel.  Every colour the loop deposits is a unit    *)
(* luminance colour times a weight, so a pixel of the buffer is held as    *)
(* the sum of the weights it received.                                     *)
(***************************************************************************)
\* the longest path a step of this process is given
MaxPathLength == 4
\* the number of MLT::accumulate calls that are followed
MaxPasses == 1

\* the pixels of the accumulation buffer, numbered y * width + x + 1 after
\* clampPixel
BufferPixels == 1..(MLTWidth * MLTHeight)
\* Image(width, height, 3), and Image::clear
ClearImage == [p \in BufferPixels |-> Zero]

\* MLT::_config with newPathMutation disabled
NoNewPath ==
    [AllMutations EXCEPT !.newPathMutation = FALSE]
\* the --mutations settings the process is followed under
EnabledSets == {AllMutations, NoNewPath}

\* a path whose radiance is below Epsilon but not zero
DimLight == [lum |-> Rat(1, 40000), rr |-> Rat(1, 2)]
\* what evaluate may give for a path of three or more vertices: nothing in
\* a scene without lights
SceneLights(lit) ==
    IF lit THEN Lights \cup {DimLight} ELSE {[lum |-> Zero, rr |-> Zero]}
\* the lengths createRandomEyePath may give: the eye vertex alone in a scene
\* without meshes
SceneLengths(lit) == IF lit THEN 1..MaxPathLength ELSE {1}

\* State{path, pixel, evaluation} of a proposal, without the pixel
StateOf(i) == [has |-> TRUE, len |-> i.len, lum |-> i.lum, rr |-> i.rr]

\* the two tests of the loop body that end an iteration with continue, all
\* but the proposal's luminance test
SelfTransitionNoProposal(i) == ~i.some
\* the two tests of the loop body that end an iteration with continue
SelfTransition(i) == ~i.some \/ Lt(i.lum, Epsilon)

\* the accumulation buffer after the deposits of one iteration
Deposit(hist, pixel, newPixel, i) ==
    IF SelfTransition(i)
    THEN [hist EXCEPT ![pixel] = Add(@, One)]
    ELSE [[hist EXCEPT ![pixel] = Add(@, Minus(One, i.acceptance))]
            EXCEPT ![newPixel] = Add(@, i.acceptance)]

\* _currentState (its path and evaluation, its pixel) at the end of an
\* iteration, adopt being the outcome of PCG32::rand() < info->acceptance;
\* the luminance test left out
NextStateAnyLuminance(cur, pixel, i, newPixel, adopt) ==
    IF ~i.some THEN <<cur, pixel>>
    ELSE IF adopt THEN <<StateOf(i), newPixel>> ELSE <<cur, pixel>>
\* _currentState (its path and evaluation, its pixel) at the end of an
\* iteration, adopt being the outcome of PCG32::rand() < info->acceptance
NextState(cur, pixel, i, newPixel, adopt) ==
    IF SelfTransition(i) THEN <<cur, pixel>>
    ELSE IF adopt THEN <<StateOf(i), newPixel>> ELSE <<cur, pixel>>

\* the outcomes PCG32::rand() < acceptance can have, rand() being in [0, 1)
Outcomes(acceptance) ==
    {b \in BOOLEAN : IF b THEN Lt(Zero, acceptance) ELSE ~Leq(One, acceptance)}

\* MLT::computeScaleFactor for the one process
ComputeScaleFactor(m) ==
    Div(Div(m.accumulatedLuminance, F(m.numNewPathMutations)), F(m.samples))

\* Image::toneMapping: std::clamp(r, 0.0f, 1.0f)
ToneMapping(r) == IF Lt(r, Zero) THEN Zero ELSE IF Lt(One, r) THEN One ELSE r

\* MLT::updateFrameBuffer: a pixel of the frame buffer, as the value handed
\* to std::pow(r, 1 / 2.2f), which is 0 for 0, NaN for NaN and grows with r
FramePixel(m, p) == ToneMapping(Add(Zero, Mul(m.hist[p], ComputeScaleFactor(m))))

\* MLT::MLT and MLTProcess::MLTProcess, for a scene and a --mutations setting
MLTConstruct ==
    /\ mp.pc = "none"
    /\ \E config \in EnabledSets, lit \in BOOLEAN :
          mp' = [NoMLT EXCEPT !.pc = "idle", !.config = config, !.lit = lit,
                              !.hist = ClearImage, !.frame = ClearImage]
    /\ UNCHANGED <<programVars, callVars, chainVars, bvhVars, path, args>>

\* IRenderer::stop
MLTStop ==
    /\ mp.pc # "none"
    /\ ~mp.stop
    /\ mp' = [mp EXCEPT !.stop = TRUE]
    /\ UNCHANGED <<programVars, callVars, chainVars, bvhVars, path, args>>

\* MLT::accumulate(scene, 1) up to the call of MLTProcess::accumulate
MLTAccumulate ==
    /\ mp.pc = "idle"
    /\ mp.passes < MaxPasses
    /\ mp' = [mp EXCEPT !.pc = "search", !.numSamples = 1,
                        !.numMutations = (1 * MLTWidth * MLTHeight) \div 1,
                        !.i = 0, !.branch = "none"]
    /\ UNCHANGED <<programVars, callVars, chainVars, bvhVars, path, args>>

\* MLTProcess::accumulate, an iteration of the first loop
InitialPath ==
    /\ mp.pc = "search"
    /\ ~mp.stop
    /\ ~chain.has
    /\ \E pixel \in BufferPixels, len \in SceneLengths(mp.lit),
          light \in SceneLights(mp.lit) :
          LET e == Evaluate(len, light)
          IN  IF Lt(Epsilon, e.lum)
              THEN /\ chain' = [has |-> TRUE, len |-> len, lum |-> e.lum,
                                rr |-> e.rr]
                   /\ mp' = [mp EXCEPT !.pixel = pixel]
              ELSE UNCHANGED <<chain, mp>>
    /\ UNCHANGED <<info, programVars, callVars, bvhVars, path, args>>

\* MLTProcess::accumulate, the end of the first loop
SearchEnds ==
    /\ mp.pc = "search"
    /\ mp.stop \/ chain.has
    /\ mp' = [mp EXCEPT !.pc = "loop"]
    /\ UNCHANGED <<programVars, callVars, chainVars, bvhVars, path, args>>

\* an iteration of the second loop reaches the call of a kernel:
\* computeRandomMutation chooses one the configuration gives a weight
KernelCalled(enabled) ==
    /\ mp.pc = "loop"
    /\ mp.i < mp.numMutations
    /\ ~mp.stop
    /\ chain.has
    /\ enabled

\* the kernel returns, having counted the new paths it made and their
\* russian roulette luminance
KernelReturns(result, newPixel, counted, luminance) ==
    /\ info' = result
    /\ mp' = [mp EXCEPT !.pc = "mutated", !.newPixel = newPixel,
                        !.numNewPathMutations = @ + counted,
                        !.accumulatedLuminance = Add(@, luminance)]
    /\ UNCHANGED <<chain, programVars, callVars, bvhVars, path, args>>

NewPathKernel ==
    /\ KernelCalled(mp.config.newPathMutation)
    /\ \E pixel \in BufferPixels, len \in SceneLengths(mp.lit),
          light \in SceneLights(mp.lit) :
          KernelReturns(ComputeNewPathMutation(chain, len, light), pixel, 1,
                        IF len <= 1 THEN Zero ELSE Evaluate(len, light).rr)

LensKernel ==
    /\ KernelCalled(mp.config.lensPerturbation)
    /\ \E pixel \in BufferPixels, fate \in {"rejected", "early", "evaluated"},
          light \in SceneLights(mp.lit) :
       \E Txy \in Transitions(FALSE), Tyx \in Transitions(FALSE) :
          KernelReturns(EyePathPerturbation(chain, FALSE, fate, Txy, Tyx, light),
                        pixel, 0, Zero)

MultiChainKernel ==
    /\ KernelCalled(mp.config.multiChainPerturbation)
    /\ \E pixel \in BufferPixels, fate \in {"rejected", "early", "evaluated"},
          light \in SceneLights(mp.lit) :
       \E Txy \in Transitions(TRUE), Tyx \in Transitions(TRUE) :
          KernelReturns(EyePathPerturbation(chain, TRUE, fate, Txy, Tyx, light),
                        pixel, 0, Zero)

\* the proposal keeps the pixel unless the eye ray is drawn again.  The
\* mutations followed here add as many vertices as they delete, so that
\* the two pairs of probabilities the acceptance is made of are equal
BidirectionalKernel ==
    /\ KernelCalled(mp.config.bidirectionalMutation)
    /\ \E d \in 0..(chain.len - 1) :
       \E s \in 0..(chain.len - d - 1) :
       \E a \in {d} :
       \E pixel \in (IF s = 0 THEN BufferPixels ELSE {mp.pixel}) :
       \E scene \in SceneAnswers, light \in SceneLights(mp.lit) :
       \E gNew \in Connections, gOld \in Connections :
          KernelReturns(BidirectionalMutation(chain, d, s, a, scene, gNew,
                                              gOld, light),
                        pixel, 0, Zero)

\* the rest of the iteration: the deposits and the acceptance test
Deposits ==
    /\ mp.pc = "mutated"
    /\ \E adopt \in Outcomes(info.acceptance) :
          /\ chain' = NextState(chain, mp.pixel, info, mp.newPixel, adopt)[1]
          /\ mp' = [mp EXCEPT
                      !.pc = "loop",
                      !.i = @ + 1,
                      !.hist = Deposit(mp.hist, mp.pixel, mp.newPixel, info),
                      !.pixel = NextState(chain, mp.pixel, info, mp.newPixel,
                                          adopt)[2],
                      !.branch = IF ~info.some THEN "no proposal"
                                 ELSE IF Lt(info.lum, Epsilon) THEN "dark"
                                 ELSE IF adopt THEN "adopted" ELSE "kept"]
    /\ info' = NoInfo
    /\ UNCHANGED <<programVars, callVars, bvhVars, path, args>>

\* the end of the second loop and of MLTProcess::accumulate, and the return
\* of MLT::accumulate
AccumulateReturns ==
    /\ mp.pc = "loop"
    /\ mp.i >= mp.numMutations \/ mp.stop
    /\ mp' = [mp EXCEPT
                !.pc = "returned",
                !.averageSamplesPerPixel =
                    Add(@, Div(F(mp.numMutations), F(MLTWidth * MLTHeight))),
                !.samples = @ + mp.numSamples,
                !.passes = @ + 1]
    /\ UNCHANGED <<programVars, callVars, chainVars, bvhVars, path, args>>

\* MLT::updateFrameBuffer, called on the renderer between two passes
MLTUpdateFrameBuffer ==
    /\ mp.pc = "returned"
    /\ mp' = [mp EXCEPT !.pc = "idle", !.updated = TRUE,
                        !.scaleFactor = ComputeScaleFactor(mp),
                        !.frame = [p \in BufferPixels |-> FramePixel(mp, p)]]
    /\ UNCHANGED <<programVars, callVars, chainVars, bvhVars, path, args>>

StepInit == InitWith(ChainConfigs, 1, "loop")

StepNext ==
    \/ MLTConstruct
    \/ MLTStop
    \/ MLTAccumulate
    \/ InitialPath
    \/ SearchEnds
    \/ NewPathKernel
    \/ LensKernel
    \/ MultiChainKernel
    \/ BidirectionalKernel
    \/ Deposits
    \/ AccumulateReturns
    \/ MLTUpdateFrameBuffer

StepSpec == StepInit /\ [][StepNext]_vars

(***************************************************************************)
(* One call of MLTProcess::bidirectionalMutation in detail: what it        *)
(* samples, every index of the current path it reads and every element of  *)
(* the proposal's std::array<Vertex, MaxLength> it writes.  A path is held *)
(* as its length; oob records an access outside the elements a path holds  *)
(* (a read) or outside the array (a write).                                *)
(***************************************************************************)
\* the lengths the path of a chain state may have
StateLengths == 3..MaxLength

\* the values operator() of a ClippedGeometricDistribution returns after
\* setParameters(n): max(0, ceil(log(1 - u) / log(base)) - 1) for 1 - u in
\* (base^(n + 1), 1]
ClippedSamples(n) == 0..n

\* the values operator() of a TwoSidedClippedGeometricDistribution returns
\* after setParameters(left, center, right): u + offset lies in
\* [base^(center - left + 1), 2 - base^(right - center + 1))
TwoSidedSamples(left, center, right) == left..right

\* maxAddedLength, one vertex too many
MaxAddedLengthOneMore(currentLength, deletedLength) ==
    MaxLength - currentLength + deletedLength + 1
\* int maxAddedLength = Path::MaxLength - currentLength + deletedLength
MaxAddedLength(currentLength, deletedLength) ==
    MaxLength - currentLength + deletedLength

\* Path::vertex(idx) of a path of the given length: is the element one the
\* path holds
VertexInPath(idx, length) == 0 <= idx /\ idx < length
\* Path::getSlice(first, last) of a path of the given length
SliceInPath(first, last, length) == first <= last /\ last <= length
\* Path::appendPath and Path::addBounce write to _path[_pathLength ..]: do
\* count more elements fit the array
FitsArray(pathLength, count) == pathLength + count <= MaxLength

\* the first lines of bidirectionalMutation: deletedLength, s and t
MutationBegins ==
    /\ mut.pc = "none"
    /\ \E currentLength \in StateLengths :
       \E deletedLength \in ClippedSamples(currentLength - 1) :
       \E s \in 0..(currentLength - deletedLength - 1) :
          mut' = [pc |-> "sampled", currentLength |-> currentLength,
                  deletedLength |-> deletedLength, s |-> s,
                  t |-> s + deletedLength + 1, addedLength |-> 0, i |-> 0,
                  pathLength |-> 0, oob |-> FALSE]
    /\ UNCHANGED <<programVars, chainVars, bvhVars, path, args, mp, fn>>

\* the test of the first vertex of the suffix, addedLength, and the
\* proposal up to the copy of the prefix and the new ray
MutationPrefix ==
    /\ mut.pc = "sampled"
    /\ \/ /\ mut.t < mut.currentLength
          /\ mut' = [mut EXCEPT
                       !.pc = "rejected",
                       !.oob = @ \/ ~VertexInPath(mut.t, mut.currentLength)]
       \/ \E addedLength \in
               TwoSidedSamples(0, mut.deletedLength,
                               MaxAddedLength(mut.currentLength,
                                              mut.deletedLength)) :
             mut' = [mut EXCEPT
                       !.pc = "adding",
                       !.addedLength = addedLength,
                       !.pathLength = 1 + mut.s,
                       !.oob = \/ @
                               \/ ~SliceInPath(1, mut.s + 1, mut.currentLength)
                               \/ ~FitsArray(1, mut.s)
                               \/ /\ mut.s # 0
                                  /\ ~VertexInPath(mut.s - 1, 1 + mut.s)]
    /\ UNCHANGED <<programVars, chainVars, bvhVars, path, args, mp, fn>>

\* a round of the loop that adds the new vertices: addBounce misses the
\* scene, or writes a vertex at _path[_pathLength]
MutationAddBounce ==
    /\ mut.pc = "adding"
    /\ mut.i < mut.addedLength
    /\ \/ mut' = [mut EXCEPT !.pc = "rejected"]
       \/ mut' = [mut EXCEPT !.i = @ + 1, !.pathLength = @ + 1,
                             !.oob = @ \/ ~FitsArray(mut.pathLength, 1)]
    /\ UNCHANGED <<programVars, chainVars, bvhVars, path, args, mp, fn>>

\* the connection to the suffix, where one is left, and the return
MutationConnects ==
    /\ mut.pc = "adding"
    /\ mut.i >= mut.addedLength
    /\ IF mut.t < mut.currentLength
       THEN \/ mut' = [mut EXCEPT !.pc = "rejected"]
            \/ mut' = [mut EXCEPT
                         !.pc = "returned",
                         !.pathLength = @ + (mut.currentLength - mut.t),
                         !.oob = \/ @
                                 \/ ~VertexInPath(mut.t, mut.currentLength)
                                 \/ /\ mut.t > 1
                                    /\ ~VertexInPath(mut.t - 1,
                                                     mut.currentLength)
                                 \/ ~SliceInPath(mut.t, mut.currentLength,
                                                 mut.currentLength)
                                 \/ ~FitsArray(mut.pathLength,
                                               mut.currentLength - mut.t)]
       ELSE mut' = [mut EXCEPT !.pc = "returned"]
    /\ UNCHANGED <<programVars, chainVars, bvhVars, path, args, mp, fn>>

\* the MutationInfo or std::nullopt goes back to the caller
MutationEnds ==
    /\ mut.pc \in {"rejected", "returned"}
    /\ mut' = NoMutation
    /\ UNCHANGED <<programVars, chainVars, bvhVars, path, args, mp, fn>>

MutationInit == InitWith(ChainConfigs, 1, "loop")

MutationNext ==
    \/ MutationBegins
    \/ MutationPrefix
    \/ MutationAddBounce
    \/ MutationConnects
    \/ MutationEnds

MutationSpec == MutationInit /\ [][MutationNext]_vars

(***************************************************************************)
(* TwoSidedClippedGeometricDistribution: setParameters, operator() and     *)
(* pdf.  operator() turns a uniform number into u = canonical *            *)
(* _normalization + _offset and that into the value it returns; the        *)
(* values of u where the result changes are powers of the base and 2 less  *)
(* such powers, so u is drawn from the middles of equal cells between      *)
(* which no such value lies, each cell standing for the same share of the  *)
(* uniform number.                                                         *)
(***************************************************************************)
\* the largest right a distribution is given
MaxRight == 4

\* _offset after setParameters(left, center, right)
Offset(left, center) == PowBase(center - left + 1)
\* _normalization after setParameters(left, center, right)
Normalization(left, center, right) ==
    Sub(Sub(Rat(2, 1), Offset(left, center)), PowBase(right - center + 1))

\* std::ceil(std::log2f(x) * _invLogBase) for 0 < x <= 1 and the base 0.5f:
\* the least j with base^j <= x
RECURSIVE CeilLog(_, _)
CeilLog(x, j) == IF ~Less(x, PowBase(j)) THEN j ELSE CeilLog(x, j + 1)

\* operator(): the value returned for u = canonical * _normalization + _offset
Sample(left, center, u) ==
    IF Less(u, One)
    THEN Max(left, center - CeilLog(u, 0) + 1)
    ELSE Max(left, center + CeilLog(Sub(Rat(2, 1), u), 0) - 1)

\* the cells u is drawn from are base^CellLog wide
CellLog(left, center, right) == Max(center - left, right - center) + 1
\* how many cells lie between _offset and _offset + _normalization
NumCells(left, center, right) ==
    Mul(Normalization(left, center, right),
        F(Pow2(CellLog(left, center, right))))[1]
\* the middle of cell j
CellMiddle(left, center, right, j) ==
    Add(Offset(left, center),
        Mul(F(2 * j + 1), PowBase(CellLog(left, center, right) + 1)))

\* the probability with which operator() returns k
SampleProbability(left, center, right, k) ==
    Rat(Cardinality({j \in 0..(NumCells(left, center, right) - 1) :
                        Sample(left, center,
                               CellMiddle(left, center, right, j)) = k}),
        NumCells(left, center, right))

\* the sum of pdf(i) for i from k to right
RECURSIVE PdfSum(_, _, _, _)
PdfSum(left, center, right, k) ==
    IF k > right THEN Zero
    ELSE Add(TwoSidedPdf(left, center, right, k),
             PdfSum(left, center, right, k + 1))

\* setParameters(left, center, right) on a distribution of base 0.5f
DistSetParameters ==
    /\ fn.f = "none"
    /\ \E left \in 0..MaxRight, center \in 0..MaxRight, right \in 0..MaxRight :
          /\ left <= center /\ center <= right
          /\ fn' = [f |-> "setParameters", left |-> left, center |-> center,
                    right |-> right, i |-> 0, result |-> Zero]
    /\ UNCHANGED <<programVars, chainVars, bvhVars, path, args, mp, mut>>

\* operator()(g)
DistSample ==
    /\ fn.f \in {"setParameters", "sample", "pdf"}
    /\ \E j \in 0..(NumCells(fn.left, fn.center, fn.right) - 1) :
          fn' = [fn EXCEPT
                   !.f = "sample",
                   !.i = Sample(fn.left, fn.center,
                                CellMiddle(fn.left, fn.center, fn.right, j)),
                   !.result = Zero]
    /\ UNCHANGED <<programVars, chainVars, bvhVars, path, args, mp, mut>>

\* pdf(i)
DistPdf ==
    /\ fn.f \in {"setParameters", "sample", "pdf"}
    /\ \E i \in fn.left..fn.right :
          fn' = [fn EXCEPT
                   !.f = "pdf", !.i = i,
                   !.result = TwoSidedPdf(fn.left, fn.center, fn.right, i)]
    /\ UNCHANGED <<programVars, chainVars, bvhVars, path, args, mp, mut>>

\* the distribution is given other parameters next
DistDone ==
    /\ fn.f \in {"sample", "pdf"}
    /\ fn' = NoCall
    /\ UNCHANGED <<programVars, chainVars, bvhVars, path, args, mp, mut>>

DistInit == InitWith(ChainConfigs, 1, "loop")

DistNext ==
    \/ DistSetParameters
    \/ DistSample
    \/ DistPdf
    \/ DistDone

DistSpec == DistInit /\ [][DistNext]_vars

(***************************************************************************)
(* A mesh with its primitives and chooseRandomVertexOnLight for a          *)
(* MeshLight.  A mesh is held as the triangle counts of its primitives;    *)
(* every triangle has an area above zero.                                  *)
(***************************************************************************)
\* the largest number of primitives of a mesh
MaxPrimitives == 3
\* the largest number of triangles of a primitive
MaxPrimitiveTriangles == 3

\* the meshes loadGltf may build
PrimitiveCounts ==
    UNION {[1..n -> 1..MaxPrimitiveTriangles] : n \in 1..MaxPrimitives}

\* primitiveStartIdx = newMesh.triangles.size() when primitive p is read:
\* the triangles of the primitives before it
RECURSIVE StartIdx(_, _)
StartIdx(counts, p) ==
    IF p = 1 THEN 0 ELSE StartIdx(counts, p - 1) + counts[p - 1]

\* the values a std::discrete_distribution over count weights returns
DiscreteSamples(count) == 0..(count - 1)

\* chooseRandomTriangle: the value of the primitive's distribution
ChooseRandomTriangle(counts, primitiveIdx, sample) == sample

\* Scene::loadGltf for one mesh: primitives, their distributions and a
\* MeshLight for each
LoadGltf ==
    /\ fn.f = "none"
    /\ \E counts \in PrimitiveCounts :
          fn' = [f |-> "loadGltf", counts |-> counts, primitiveIdx |-> 0,
                 triangleIdx |-> 0]
    /\ UNCHANGED <<programVars, chainVars, bvhVars, path, args, mp, mut>>

\* chooseRandomVertexOnLight for the MeshLight of a primitive, up to the
\* read of scene.meshes[light.meshIdx].triangles[triangleIdx]
ChooseRandomVertexOnLight ==
    /\ fn.f \in {"loadGltf", "chooseRandomVertexOnLight"}
    /\ \E primitiveIdx \in 1..Len(fn.counts) :
       \E sample \in DiscreteSamples(fn.counts[primitiveIdx]) :
          fn' = [fn EXCEPT
                   !.f = "chooseRandomVertexOnLight",
                   !.primitiveIdx = primitiveIdx,
                   !.triangleIdx =
                       ChooseRandomTriangle(fn.counts, primitiveIdx, sample)]
    /\ UNCHANGED <<programVars, chainVars, bvhVars, path, args, mp, mut>>

\* another scene is loaded next
SceneDropped ==
    /\ fn.f = "chooseRandomVertexOnLight"
    /\ fn' = NoCall
    /\ UNCHANGED <<programVars, chainVars, bvhVars, path, args, mp, mut>>

LightInit == InitWith(ChainConfigs, 1, "loop")

LightNext ==
    \/ LoadGltf
    \/ ChooseRandomVertexOnLight
    \/ SceneDropped

LightSpec == LightInit /\ [][LightNext]_vars

(***************************************************************************)
(* renderLoop from its first pass to its last, on a renderer without a     *)
(* pool: a call of accumulate is one step, which adds its numSamples to    *)
(* the renderer's samples per pixel; stop() may be called at any time.     *)
(***************************************************************************)
\* the loop condition of renderLoop
LoopGoesOn == numSamplesPerPixel < NumSamplesToTake

\* renderLoop: the loop condition holds and accumulate runs and returns
LoopPass(t) ==
    /\ rpc[t] = "loop"
    /\ LoopGoesOn
    /\ numSamplesPerPixel' = numSamplesPerPixel + rloc[t].step
    /\ rpc' = [rpc EXCEPT ![t] = "check"]
    /\ UNCHANGED <<fixedVars, isStopping, acc, procs, nullDeref, poolVars, exec,
                   unfinished, rloc, processVars, mainVars>>

\* renderLoop returns: the loop condition fails
LoopExit(t) ==
    /\ rpc[t] = "loop"
    /\ ~LoopGoesOn
    /\ rpc' = [rpc EXCEPT ![t] = "exited"]
    /\ UNCHANGED <<fixedVars, rendererVars, poolVars, exec, unfinished, rloc,
                   processVars, mainVars>>

\* IRenderer::stop, called by reset() or the destructor
RendererStop ==
    /\ ~isStopping
    /\ isStopping' = TRUE
    /\ UNCHANGED <<fixedVars, numSamplesPerPixel, acc, procs, nullDeref,
                   poolVars, exec, unfinished, rpc, rloc, processVars, mainVars>>

LoopConfigs ==
    {[usePT |-> pt, numJobs |-> 1, lit |-> TRUE,
      width |-> MLTWidth, height |-> MLTHeight] : pt \in BOOLEAN}

LoopInit == InitWith(LoopConfigs, 1, "loop")

\* the steps of the render thread
LoopProgress ==
    \E t \in RenderThreads :
        \/ LoopPass(t)
        \/ LoopExit(t)
        \/ CheckStopping(t)
        \/ UpdateFrameBuffer(t)
        \/ SwapBuffers(t)

LoopNext ==
    \/ \E t \in RenderThreads : LoopPass(t)
    \/ \E t \in RenderThreads : LoopExit(t)
    \/ \E t \in RenderThreads : CheckStopping(t)
    \/ \E t \in RenderThreads : UpdateFrameBuffer(t)
    \/ \E t \in RenderThreads : SwapBuffers(t)
    \/ RendererStop

\* the render thread is scheduled; nobody owes a call of stop()
LoopSpec == LoopInit /\ [][LoopNext]_vars /\ WF_vars(LoopProgress)

(***************************************************************************)
(* Scene::sampleTexture on a non-empty image: the texel read for a texture *)
(* coordinate.  Coordinates are quarters, so that the products with the    *)
(* image's width and height are exact.                                     *)
(***************************************************************************)
\* the largest width and height of an image
MaxImageDim == 3
\* texture coordinates lie in [-MaxCoord, MaxCoord]
MaxCoord == 2

ImageDims == 1..MaxImageDim
TextureCoords == {Rat(n, 4) : n \in (-4 * MaxCoord)..(4 * MaxCoord)}

\* int(x) for a float inside the range of int: the fraction is dropped
IntCast(x) ==
    IF x[1] >= 0 THEN x[1] \div x[2] ELSE -((-x[1]) \div x[2])

\* 2^bits modulo m
RECURSIVE TwoToTheMod(_, _)
TwoToTheMod(bits, m) ==
    IF bits = 0 THEN 1 % m ELSE (2 * TwoToTheMod(bits - 1, m)) % m

\* k % m for an int k and a std::size_t m: k is converted to std::size_t,
\* which adds 2^64 to a negative k, and the remainder is unsigned
SizeTRemainder(k, m) ==
    IF k >= 0 THEN k % m ELSE (TwoToTheMod(64, m) + (k % m)) % m

\* the texel coordinate int(textureCoord.x * image.width())
TexelCoordinate(c, size) == IntCast(Mul(c, F(size)))

\* the column or row of the texel: the remainder, and `if (u < 0) u += size'
\* on the std::size_t u
WrappedTexel(c, size) ==
    LET u == SizeTRemainder(TexelCoordinate(c, size), size)
    IN  IF u < 0 THEN u + size ELSE u

\* Image(w, h, channels) of a texture
LoadImage ==
    /\ fn.f = "none"
    /\ \E w \in ImageDims, h \in ImageDims :
          fn' = [f |-> "image", width |-> w, height |-> h,
                 textureCoord |-> <<Zero, Zero>>, u |-> 0, v |-> 0]
    /\ UNCHANGED <<programVars, chainVars, bvhVars, path, args, mp, mut>>

\* Scene::sampleTexture up to the call of image.rgb(u, v)
SampleTexture ==
    /\ fn.f = "image"
    /\ \E x \in TextureCoords, y \in TextureCoords :
          fn' = [fn EXCEPT !.f = "sampleTexture",
                           !.textureCoord = <<x, y>>,
                           !.u = WrappedTexel(x, fn.width),
                           !.v = WrappedTexel(y, fn.height)]
    /\ UNCHANGED <<programVars, chainVars, bvhVars, path, args, mp, mut>>

\* image.rgb(u, v) is read and returned
SampleTextureReturns ==
    /\ fn.f = "sampleTexture"
    /\ fn' = [fn EXCEPT !.f = "image", !.textureCoord = <<Zero, Zero>>,
                        !.u = 0, !.v = 0]
    /\ UNCHANGED <<programVars, chainVars, bvhVars, path, args, mp, mut>>

TextureInit == InitWith(ChainConfigs, 1, "loop")

TextureNext ==
    \/ LoadImage
    \/ SampleTexture
    \/ SampleTextureReturns

TextureSpec == TextureInit /\ [][TextureNext]_vars

(***************************************************************************)
(* The passes of the render loop over an MLT renderer whose image has an   *)
(* even or an odd number of pixels: the render thread, the pool's workers  *)
(* and the work of the processes, with stop() called at any time and       *)
(* nothing that clears the flag.                                           *)
(***************************************************************************)
PassConfigs ==
    {[usePT |-> FALSE, numJobs |-> n, lit |-> TRUE,
      width |-> w, height |-> MLTHeight] :
        n \in 1..MaxJobs, w \in {MLTWidth, MLTWidth + 1}}

PassInit == InitWith(PassConfigs, 1, "loop")

PassNext ==
    \/ \E t \in RenderThreads : LoopTest(t)
    \/ \E t \in RenderThreads : MLTSubmit(t)
    \/ \E t \in RenderThreads : SubmitNotify(t)
    \/ \E t \in RenderThreads : PoolWait(t)
    \/ \E t \in RenderThreads : WaitSpuriousWakeup(t)
    \/ \E t \in RenderThreads : InlineReturn(t)
    \/ \E t \in RenderThreads : AccumulateDone(t)
    \/ \E t \in RenderThreads : CheckStopping(t)
    \/ \E t \in RenderThreads : UpdateFrameBuffer(t)
    \/ \E t \in RenderThreads : SwapBuffers(t)
    \/ \E w \in 1..MaxJobs : WorkerNext(w)
    \/ \E e \in Executors : InitialStateSearch(e)
    \/ \E e \in Executors : MutationStep(e)
    \/ RendererStop

PassSpec == PassInit /\ [][PassNext]_vars

(***************************************************************************)
(* Properties                                                              *)
(***************************************************************************)
\* no closure is queued, running or about to be counted as finished
NoJobAnywhere ==
    /\ workQueue = <<>>
    /\ numActiveTasks = 0
    /\ unfinished = {}
    /\ \A e \in DOMAIN exec : exec[e].pc = "none"

\* an accumulate call is under way on some thread
PassInProgress ==
    \/ \E t \in RenderThreads :
          rpc[t] \in {"submit", "notify", "wait", "blocked", "inline"}
    \/ \E e \in DOMAIN exec : exec[e].pc \in {"run", "init", "mut"}
    \/ workQueue # <<>>

\* C1: when ThreadPool::wait() returns to accumulate, the work queue is
\* empty, _numActiveTasks is 0, no worker is running a job and every job the
\* call submitted has finished.
C1_WaitReturnsWhenAllDone ==
    \A t \in RenderThreads :
        (HasPool /\ rpc[t] = "accdone") =>
            /\ workQueue = <<>>
            /\ numActiveTasks = 0
            /\ unfinished = {}
            /\ \A w \in Workers : wpc[w] # "running" /\ exec[w].pc = "none"

\* wait() has returned after the workers did the jobs of a pass
C1_Witness ==
    \E t \in RenderThreads :
        /\ HasPool
        /\ rpc[t] = "accdone"
        /\ \/ cfg.usePT /\ \A p \in Pixels : acc[p] > 0
           \/ ~cfg.usePT /\ \A p \in DOMAIN procs : procs[p].muts > 0

\* C2: the camera is written only when no render pass is in progress.
C2_SceneFixedDuringPass == [][camera' # camera => ~PassInProgress]_vars

\* C3: after MLT::reset() every process is without a chain state and its
\* histogram is zero.
C3_ResetClearsChain ==
    (~cfg.usePT /\ mpc = "reset_start") =>
        \A p \in DOMAIN procs : ~procs[p].state /\ procs[p].hist = 0

\* C4: the acceptance of every proposal a kernel returns is a number
\* between 0 and 1.
C4_AcceptanceInUnitInterval ==
    info.some =>
        /\ IsFinite(info.acceptance)
        /\ 0 <= info.acceptance[1]
        /\ info.acceptance[1] <= info.acceptance[2]

\* C5: once stop() has been called the render thread ends, no step having
\* dereferenced an empty chain state, and the joins of reset() and of the
\* destructor return; the scene may be one without light.
C5_StopTerminates ==
    /\ [](~nullDeref)
    /\ (isStopping ~> rpc[thread] = "exited")
    /\ (mpc = "reset_join" ~> mpc = "reset_renderer")
    /\ (mpc = "dtor_join" ~> mpc \in {"pool_dtor", "done"})

\* the join of reset() has returned in a scene without light, the jobs that
\* were searching for an initial state having returned
C5_Witness ==
    /\ ~cfg.usePT
    /\ ~cfg.lit
    /\ mpc = "reset_renderer"
    /\ \A p \in DOMAIN procs : ~procs[p].state /\ procs[p].muts > 0

\* no render thread is alive and no job is left
NothingRuns ==
    /\ \A t \in RenderThreads : rpc[t] \in {"none", "exited"}
    /\ NoJobAnywhere

\* C6: reset() stops the renderer, joins the render thread, resets the
\* renderer and starts a new thread, in this order: at most one render thread
\* is alive, the renderer is reset only when nothing runs, and a new thread
\* is started with _isStopping false.
C6_ResetInOrder ==
    /\ Cardinality({t \in RenderThreads : rpc[t] \notin {"none", "exited"}}) <= 1
    /\ mpc = "reset_join" => isStopping
    /\ mpc = "reset_renderer" => isStopping /\ NothingRuns
    /\ mpc = "reset_start" => ~isStopping /\ NothingRuns

\* after a reset the second render thread has finished a pass
C6_Witness ==
    /\ resets >= 1
    /\ rpc[1] = "exited"
    /\ thread = 2
    /\ rpc[thread] = "accdone"

\* C7: the tiles of one PathTracer::accumulate call are pairwise disjoint
\* and cover the image, and so does the one inline block, whatever the
\* width and height.
C7_TilesPartitionImage ==
    \A t \in RenderThreads :
        /\ rpc[t] \in {"submit", "notify", "wait"} =>
              \A k, l \in DOMAIN workQueue :
                  k # l => BlockPixels(workQueue[k]) \cap BlockPixels(workQueue[l]) = {}
        /\ rpc[t] = "wait" =>
              UNION {BlockPixels(workQueue[k]) : k \in DOMAIN workQueue} = Pixels
        /\ rpc[t] = "inline" => BlockPixels(exec[RId(t)].job) = Pixels

\* four tiles were handed out for an image whose sides are no multiples of 32
C7_Witness ==
    /\ cfg.width = BlockWidth + 1
    /\ cfg.height = BlockWidth + 3
    /\ rpc[1] = "wait"
    /\ Len(workQueue) = 4

\* the mutations a process has been given by the passes up to the one with
\* the given step
RECURSIVE TotalMutations(_)
TotalMutations(step) ==
    IF step = 0 THEN 0
    ELSE NumMutationsPerProcess(step) + TotalMutations(step \div 2)

\* C8: a process of MLT is worked on by at most one thread at a time: a pass
\* gives every process exactly one job and returns after all of them, and
\* updateFrameBuffer runs on the render thread with no job queued or running.
C8_OneThreadPerProcess ==
    ~cfg.usePT =>
        /\ \A p \in DOMAIN procs :
              Cardinality({k \in DOMAIN workQueue : workQueue[k].a = p})
                + Cardinality({e \in DOMAIN exec :
                                  exec[e].pc \in {"init", "mut"} /\ exec[e].job.a = p})
                <= 1
        /\ \A t \in RenderThreads :
              /\ rpc[t] = "accdone" =>
                    \A p \in DOMAIN procs : procs[p].muts = TotalMutations(rloc[t].step)
              /\ rpc[t] \in {"accdone", "check", "update", "swap"} => NoJobAnywhere

\* the histograms of all processes are merged after a pass run by the pool
C8_Witness ==
    /\ ~cfg.usePT
    /\ HasPool
    /\ \E t \in RenderThreads : rpc[t] = "update"
    /\ \A p \in DOMAIN procs : procs[p].hist > 0

\* C9: front and back are always the two different frame buffers; only the
\* render thread's swap exchanges them; updateFrameBuffer writes the buffer
\* that is back and no other; frameBuffer() gives one of the two frame
\* buffers.
C9_FrontAndBack ==
    /\ [](front # back /\ {front, back} = DOMAIN frames /\ FrameBuffer \in DOMAIN frames)
    /\ [][(front' # front \/ back' # back) =>
             \E t \in RenderThreads : rpc[t] = "swap" /\ rpc'[t] = "loop"]_vars
    /\ [][\A b \in DOMAIN frames : frames'[b] # frames[b] =>
             b = back /\ \E t \in RenderThreads : rpc[t] = "update"]_vars

\* a frame was drawn into buffer 1 and published
C9_Witness ==
    /\ front = 1
    /\ back = 0
    /\ frames[1] > 0

\* C10: a worker leaves only when the pool is stopping and the queue is
\* empty; once the destructor has set _stopping, every job handed to the pool
\* is executed, every worker leaves and the joins return.
C10_DestructionLosesNoWork ==
    /\ [](\A w \in DOMAIN wpc : wpc[w] = "exited" => stopping /\ workQueue = <<>>)
    /\ [](mpc = "done" =>
             /\ NoJobAnywhere
             /\ \A w \in DOMAIN wpc : wpc[w] = "exited"
             /\ \A k \in 0..(mloc.submitted - 1) :
                   \A p \in BlockPixels(TileJob(k * BlockWidth, 0, BlockWidth, 1)) :
                       acc[p] = 1)
    /\ (stopping ~> mpc = "done")

\* the destructor is at its joins while jobs are still queued
C10_Witness ==
    /\ mpc = "pool_join"
    /\ Len(workQueue) = MaxClientJobs


(***************************************************************************)
(* Properties of the BVH                                                   *)
(***************************************************************************)
\* the constructor of the BVH has returned
Built == bvh.pc = "built"

\* C12: after construction of a BVH over any set of triangles, every leaf
\* node holds at most MaxNumTrianglesInLeaf = 4 triangles
C12_LeafHoldsAtMostMaxLeaf ==
    Built =>
        \A n \in 1..Len(bvh.nodes) :
            IsLeaf(bvh.nodes[n]) => bvh.nodes[n].numTriangles <= MaxNumTrianglesInLeaf

\* the nodes of the BVH that are leaves, as positions in the node array
Leaves == {n \in 1..Len(bvh.nodes) : IsLeaf(bvh.nodes[n])}

\* the triangles (positions in BVH::triangles, from 0) of the leaf at n
LeafRange(n) == bvh.nodes[n].idx .. (bvh.nodes[n].idx + bvh.nodes[n].numTriangles - 1)

\* C13: after construction over any triangle range, every node with
\* numTriangles == 0 has its four children in the node array at idx..idx+3,
\* and every triangle of the range lies in exactly one leaf
C13_InternalNodesHaveFourChildren ==
    Built =>
        /\ \A n \in 1..Len(bvh.nodes) :
              bvh.nodes[n].numTriangles = 0 =>
                  /\ bvh.nodes[n].idx > n - 1
                  /\ bvh.nodes[n].idx + 3 < Len(bvh.nodes)
        /\ \A i \in 0..(Len(bvh.mesh) - 1) :
              Cardinality({n \in Leaves : i \in LeafRange(n)}) = 1
        /\ {bvh.triangles[i].idx : i \in 1..Len(bvh.triangles)}
              = 0..(Len(bvh.mesh) - 1)

\* the same for the ranges that hold a triangle: what the code keeps
C13_NonEmptyRangeIsPartitioned ==
    (Built /\ bvh.mesh # <<>>) =>
        /\ \A n \in 1..Len(bvh.nodes) :
              bvh.nodes[n].numTriangles = 0 =>
                  /\ bvh.nodes[n].idx > n - 1
                  /\ bvh.nodes[n].idx + 3 < Len(bvh.nodes)
        /\ \A i \in 0..(Len(bvh.mesh) - 1) :
              Cardinality({n \in Leaves : i \in LeafRange(n)}) = 1
        /\ {bvh.triangles[i].idx : i \in 1..Len(bvh.triangles)}
              = 0..(Len(bvh.mesh) - 1)

\* C11: BVH::intersect returns a hit exactly when the brute-force scan of the
\* triangles with the same test finds one, and then the closest hit of the
\* scan, with the same triangle index and distance
C11_IntersectEqualsBruteForce ==
    /\ trav.pc # "crashed"
    /\ trav.pc = "done" =>
          trav.closestHit
              = BruteForce(bvh.mesh, trav.ray, trav.minDistance, trav.maxDistance)

\* the stack entries at positions i and j are children of one internal node
Siblings(i, j) ==
    \E n \in 1..Len(bvh.nodes) :
        /\ bvh.nodes[n].numTriangles = 0
        /\ trav.stack[i].index \in bvh.nodes[n].idx .. (bvh.nodes[n].idx + 3)
        /\ trav.stack[j].index \in bvh.nodes[n].idx .. (bvh.nodes[n].idx + 3)

\* C14: the hit children of an expanded node are visited nearest first: of
\* two of them on the traversal stack, the one popped first (the upper one)
\* does not have the larger box near-distance
C14_NearestChildPoppedFirst ==
    trav.pc = "loop" =>
        \A i \in 1..Len(trav.stack) : \A j \in (i + 1)..Len(trav.stack) :
            Siblings(i, j) => ~Lt(trav.stack[i].dist, trav.stack[j].dist)

(***************************************************************************)
(* Properties of the paths                                                 *)
(***************************************************************************)
\* a path was returned
PathReturned == path.pc = "done"

\* C15 as claimed: every path createRandomEyePath or createRandomLightPath
\* returns, in any scene, has a length of at least 1 and at most MaxLength
C15_EveryPathHasAVertex ==
    PathReturned => (1 <= path.length /\ path.length <= MaxLength)

\* C15: an eye path returned has a length of at least 1 and at most
\* MaxLength in any scene; a light path returned has length 1, and length 0
\* when the scene has no lights
C15_PathLengths ==
    PathReturned =>
        /\ path.length = Len(path.bounces)
        /\ path.kind = "eye" => (1 <= path.length /\ path.length <= MaxLength)
        /\ path.kind = "light" =>
              path.length = (IF path.scene.lights = 0 THEN 0 ELSE 1)

\* an eye path is returned full
C15_Witness ==
    PathReturned /\ path.kind = "eye" /\ path.length = MaxLength

(***************************************************************************)
(* Properties of the --mutations option                                    *)
(***************************************************************************)
\* the non-empty comma-separated tokens of a string, as <<first, last>>
Tokens(string) ==
    {t \in (1..Len(string)) \X (1..Len(string)) :
        /\ t[1] <= t[2]
        /\ \A i \in t[1]..t[2] : string[i] # ","
        /\ t[1] = 1 \/ string[t[1] - 1] = ","
        /\ t[2] = Len(string) \/ string[t[2] + 1] = ","}

\* token t of the string is a case-insensitive prefix of the name
IsPrefixOf(string, t, name) ==
    /\ t[2] - t[1] + 1 <= Len(MutationChars[name])
    /\ \A i \in t[1]..t[2] :
          ToLower(string[i]) = ToLower(MutationChars[name][i - t[1] + 1])

\* the names a token of the string is a prefix of
Named(string, t) ==
    {name \in DOMAIN MutationChars : IsPrefixOf(string, t, name)}

\* main is past the option
ArgsSettled == args.pc \in {"parsed", "exit"}

\* every token names exactly one mutation, the mutations named are the
\* ones enabled, and a token that names none ends the program with code 1
TokensDecide ==
    /\ \A t \in Tokens(args.string) : Cardinality(Named(args.string, t)) <= 1
    /\ args.pc = "exit" <=>
          \E t \in Tokens(args.string) : Named(args.string, t) = {}
    /\ args.pc = "exit" => args.exitCode = 1
    /\ args.pc = "parsed" =>
          /\ args.exitCode = 0
          /\ \A name \in DOMAIN MutationChars :
                args.enabledMutations[name]
                    <=> \E t \in Tokens(args.string) : name \in Named(args.string, t)

\* C18 as claimed: each non-empty token of the option enables exactly the
\* mutation of whose name it is a case-insensitive prefix, mutations no
\* token names stay disabled, and a non-empty token that is a prefix of no
\* name makes the program exit with code 1
C18_TokensEnableMutations == ArgsSettled => TokensDecide

\* C18: the same for every value of the option but the empty string, which
\* leaves all four mutations enabled
C18_TokensEnableMutationsUnlessEmpty ==
    ArgsSettled =>
        IF args.string = <<>>
        THEN args.pc = "parsed" /\ args.enabledMutations = AllMutations
        ELSE TokensDecide

\* an option with two tokens in capitals and lower case was parsed, and
\* enabled two mutations only
C18_Witness ==
    /\ args.pc = "parsed"
    /\ args.string = <<"L", "E", "N", "S", ",", "B", "i", "D", "i", "r">>
    /\ args.enabledMutations
          = [NoMutations EXCEPT !.lensPerturbation = TRUE,
                                !.bidirectionalMutation = TRUE]

\* C16: computeScaleFactor is guarded against a zero total of new-path
\* attempts: once updateFrameBuffer has run, in a run nobody stopped, the
\* factor it scaled the histogram with is a number (0 or an earlier scale
\* when no new path was attempted), never the result of a division by zero.
C16_ScaleFactorIsDefined ==
    (mp.updated /\ ~mp.stop) => IsFinite(mp.scaleFactor)

\* C17: in a scene with no meshes and no lights the process never leaves
\* the empty chain state and never writes its histogram, and the frame
\* updateFrameBuffer makes is zero everywhere, with no NaN in it.
C17_EmptySceneStaysZero ==
    (mp.pc # "none" /\ ~mp.lit) =>
        /\ chain = NoState
        /\ mp.hist = ClearImage
        /\ mp.updated => mp.frame = ClearImage

\* the loop of MLTProcess::accumulate ends an iteration
IterationEnds == mp.pc = "mutated" /\ mp'.pc = "loop"

\* C19: an iteration whose kernel returns no proposal, or a proposal of
\* luminance below Epsilon, adds the unit luminance colour of the current
\* state once to the pixel of the current state, writes no other pixel of
\* the histogram (the kernel writes none either) and leaves the chain state
\* as it was.
C19_SelfTransitionDepositsOnce ==
    [][/\ (mp.pc = "loop" /\ mp'.pc = "mutated") => mp'.hist = mp.hist
       /\ (IterationEnds /\ (~info.some \/ Lt(info.lum, Epsilon))) =>
             /\ mp'.hist = [mp.hist EXCEPT ![mp.pixel] = Add(@, One)]
             /\ chain' = chain
             /\ mp'.pixel = mp.pixel]_vars

\* an iteration ended with continue after a proposal below Epsilon, the
\* pixel of the state holding what was added
C19_Witness ==
    /\ mp.branch = "dark"
    /\ chain.has
    /\ Leq(One, mp.hist[mp.pixel])

\* C20: the chain state changes only by adopting a proposal: an iteration
\* leaves the state (path, evaluation and pixel) as it was or makes it the
\* proposal its kernel returned, which then has luminance of Epsilon or
\* more; the call of the kernel itself leaves the state alone.
C20_StateChangesOnlyByAdoption ==
    [][(chain.has /\ mp.pc \in {"loop", "mutated"}) =>
          \/ chain' = chain /\ mp'.pixel = mp.pixel
          \/ /\ IterationEnds
             /\ info.some
             /\ Leq(Epsilon, info.lum)
             /\ chain' = StateOf(info)
             /\ mp'.pixel = mp.newPixel]_vars

\* an iteration has just replaced the state by its proposal
C20_Witness ==
    /\ mp.branch = "adopted"
    /\ chain.has
    /\ mp.pixel = mp.newPixel
    /\ info = NoInfo

\* C21: in bidirectionalMutation every index used is in range (s and
\* t = s + d + 1 <= L among them), a returned proposal has exactly
\* L + a - d vertices and never more than MaxLength, and no write of
\* addBounce or appendPath goes past the path array.
C21_MutationStaysInArray ==
    mut.pc # "none" =>
        /\ ~mut.oob
        /\ mut.s >= 0 /\ mut.t <= mut.currentLength
        /\ mut.pathLength <= MaxLength
        /\ mut.pc = "returned" =>
              mut.pathLength
                  = mut.currentLength + mut.addedLength - mut.deletedLength

\* a mutation returns a proposal that fills the array: it added vertices
\* and copied a suffix
C21_Witness ==
    /\ mut.pc = "returned"
    /\ mut.pathLength = MaxLength
    /\ mut.addedLength > 0
    /\ mut.t < mut.currentLength
    /\ mut.s > 0

\* C22: for any left <= center <= right the two-sided distribution samples
\* inside [left, right], pdf(k) is the probability with which the sampler
\* returns k (proportional to base^|k - center|, the correction applied at
\* k = center) and the pdf values over [left, right] sum to 1.
C22_PdfIsSamplerProbability ==
    /\ fn.f = "sample" => fn.left <= fn.i /\ fn.i <= fn.right
    /\ fn.f = "pdf" =>
          /\ fn.result = SampleProbability(fn.left, fn.center, fn.right, fn.i)
          /\ PdfSum(fn.left, fn.center, fn.right, fn.left) = One

\* C23: when createRandomLightPath picks a MeshLight the triangle read for
\* the emission vertex belongs to the light's own primitive: its index lies
\* in [startIdx, startIdx + count) of that primitive, also for a primitive
\* whose startIdx is above 0.
C23_TriangleOfOwnPrimitive ==
    fn.f = "chooseRandomVertexOnLight" =>
        /\ StartIdx(fn.counts, fn.primitiveIdx) <= fn.triangleIdx
        /\ fn.triangleIdx
              < StartIdx(fn.counts, fn.primitiveIdx) + fn.counts[fn.primitiveIdx]

\* the samples per pixel after the passes of sizes 1, 2, 4, ..., 128, 128, ...
StepSums(spp) ==
    \/ \E k \in 0..7 : spp = Pow2(k) - 1
    \/ spp > MaxNumSamplesPerStep /\ (spp + 1) % MaxNumSamplesPerStep = 0

C25_TexelsWrap ==
    fn.f = "sampleTexture" =>
        /\ fn.u = TexelCoordinate(fn.textureCoord[1], fn.width) % fn.width
        /\ fn.v = TexelCoordinate(fn.textureCoord[2], fn.height) % fn.height
        /\ fn.u \in 0..(fn.width - 1)
        /\ fn.v \in 0..(fn.height - 1)

\* the mutation steps the processes 1..p have executed since construction
RECURSIVE MutationSteps(_)
MutationSteps(p) ==
    IF p = 0 THEN 0 ELSE procs[p].hist + MutationSteps(p - 1)

\* C26: after a completed (not stopped) MLT::accumulate(scene, N, pool) the
\* mutation steps executed by all workers number N * width * height, so that
\* numSamplesPerPixel(), which grows by N, is the average number of mutations
\* a pixel received, for every number of workers: after every pass the steps
\* executed so far are numSamplesPerPixel() * width * height.
C26_MutationsPerPixel ==
    \A t \in RenderThreads :
        (rpc[t] = "check" /\ ~isStopping) =>
            MutationSteps(NumProcesses)
                = numSamplesPerPixel * cfg.width * cfg.height

\* the places a job is at: positions of the queue, and workers running it
Copies(job) ==
    Cardinality({k \in DOMAIN workQueue : workQueue[k] = job})
      + Cardinality({w \in Workers : /\ wpc[w] = "running"
                                     /\ exec[w].job = job
                                     /\ exec[w].pc # "ret"})

\* the workers between taking a job and the decrement that follows it
RunningWorkers == {w \in Workers : wpc[w] = "running"}

\* C27: in every state of the ThreadPool activeTasks is the number of queued
\* jobs plus the number of jobs workers are executing (it never underflows),
\* and every job passed to assignWork is dequeued and executed exactly once,
\* by exactly one worker: until it returns it is at one place, the queue or
\* a worker, it leaves the queue only at its front and to one worker, and
\* after its return it is nowhere.
C27_ActiveTasksCountJobs ==
    /\ [](/\ numActiveTasks = Len(workQueue) + Cardinality(RunningWorkers)
          /\ numActiveTasks >= 0
          /\ \A job \in unfinished : Copies(job) = 1
          /\ \A k \in DOMAIN workQueue : workQueue[k] \in unfinished
          /\ \A w \in RunningWorkers :
                exec[w].pc # "ret" => exec[w].job \in unfinished)
    /\ [][Len(workQueue') < Len(workQueue) =>
             /\ workQueue' = Tail(workQueue)
             /\ \E w \in Workers :
                   /\ wpc[w] = "idle"
                   /\ wpc'[w] = "running"
                   /\ exec'[w].job = Head(workQueue)
                   /\ \A v \in Workers \ {w} : exec'[v] = exec[v]]_vars
    /\ [][\A job \in unfinished \ unfinished' :
             \E w \in RunningWorkers :
                exec[w].job = job /\ exec'[w].pc = "ret"]_vars

\* both workers have taken a job; one job has returned and its worker has
\* not yet counted it off, the other is still being executed
C27_Witness ==
    /\ numActiveTasks = 2
    /\ workQueue = <<>>
    /\ Cardinality(RunningWorkers) = 2
    /\ Cardinality(unfinished) = 1
    /\ \E w \in RunningWorkers : exec[w].pc = "ret"

\* C28: a frame is never published from a pass that stop() cut short: when
\* the render loop calls updateFrameBuffer and swaps, the accumulate before
\* it ran to completion, no job of it is left, every pixel of the path tracer
\* holds numSamplesPerPixel() samples and every process of MLT has executed
\* all the mutations it was given, however stop() interleaves with the
\* render thread and the workers.
C28_PublishedPassIsComplete ==
    \A t \in RenderThreads :
        rpc[t] \in {"update", "swap"} =>
            /\ NoJobAnywhere
            /\ numSamplesPerPixel > 0
            /\ cfg.usePT => \A p \in Pixels : acc[p] = numSamplesPerPixel
            /\ ~cfg.usePT => \A p \in DOMAIN procs : procs[p].hist = procs[p].muts

\* stop() was called after the test of the render loop: the frame of a pass
\* the pool ran to its end is about to be published
C28_Witness ==
    /\ cfg.usePT
    /\ HasPool
    /\ isStopping
    /\ \E t \in RenderThreads : rpc[t] = "swap"
    /\ \A p \in Pixels : acc[p] = numSamplesPerPixel
    /\ numSamplesPerPixel > 0

\* the executors inside MLTProcess::accumulate
ProcessExecutors == {e \in DOMAIN exec : exec[e].job.kind = "proc"}

\* C29: MLTProcess::accumulate never executes a mutation step, which reads
\* the chain state, while its process has none: when the search for an
\* initial state ends by stop() without a path the mutation loop ends before
\* its first step, however stop() and reset() interleave with the workers.
C29_NoStepWithoutState ==
    /\ [](\A e \in ProcessExecutors :
            /\ (exec[e].pc = "mut" /\ ~procs[exec[e].job.a].state) => isStopping
            /\ (exec[e].pc \in {"mut", "ret"} /\ ~procs[exec[e].job.a].state)
                  => exec[e].i = 0)
    /\ [][\A e \in ProcessExecutors :
            (exec[e].pc = "mut" /\ exec'[e].pc = "mut" /\ exec'[e].i # exec[e].i)
                => procs[exec[e].job.a].state /\ ~nullDeref']_vars

\* a search was ended by stop() without a path, and the mutation loop that
\* was given mutations to do has returned without a step
C29_Witness ==
    \E e \in ProcessExecutors :
        /\ exec[e].pc = "ret"
        /\ exec[e].job.n > 0
        /\ exec[e].i = 0
        /\ ~procs[exec[e].job.a].state
        /\ isStopping

\* C30: a chain state an MLT worker holds has a luminance of Epsilon or more,
\* above zero, and a path of 3 to MaxLength vertices: the initial state and
\* the state after any mutation steps, whatever the kernels and whether
\* their proposals are adopted or not, so that the division by the current
\* luminance in a step divides by no zero.
C30_ChainStateIsValid ==
    chain.has =>
        /\ Leq(Epsilon, chain.lum)
        /\ Lt(Zero, chain.lum)
        /\ chain.len \in 3..MaxLength

\* a bidirectional mutation's proposal has replaced a state and the lens
\* perturbation of the new state has returned early, with acceptance 0 and
\* the radiance a MutationInfo starts with
C30_Witness ==
    /\ chain.has
    /\ chain.len = MaxLength
    /\ chain.lum = Rat(1, 2)
    /\ chain.rr = Rat(2, 1)
    /\ info.some
    /\ info.type = "Lens"
    /\ info.acceptance = Zero
    /\ info.lum = One

====
